---- MODULE Spec2Model ----
(***************************************************************************)
(* RazMedBot: order intake, pricing/discounts, order lifecycle and the     *)
(* time-boxed clarification subsystem.                                     *)
(*                                                                         *)
(* One action per handler of handlers/user_handlers.py,                    *)
(* handlers/payment_handlers.py and admin/admin_handlers.py.  The store    *)
(* (database/database.py) and utils/config.py are not part of the source   *)
(* tree; their operations are modelled from the written specification      *)
(* (sections 4.1-4.5) and are marked as such where they are defined.       *)
(*                                                                         *)
(* Money is kept in kopecks (1/100 rouble) so that the percentages the     *)
(* handlers compute in floating point are exact here.                      *)
(***************************************************************************)
EXTENDS Integers, Sequences, FiniteSets, TLC

VARIABLES
    now,                \* wall clock, in abstract timestamp units
    payment_test_mode,  \* config.PAYMENT_TEST_MODE, fixed for a run
    agreements,         \* users whose agreement acceptance is recorded
    fsm,                \* FSM state of each user's session ("none" = no state)
    data,               \* FSM data of each user's session
    invoice_task,       \* handle_promo_code suspended before send_invoice_to_user
    orders,             \* table orders: id -> row
    promo_codes,        \* table promo_codes: code -> row
    used_promo_codes,   \* table used_promo_codes (PromoUsage), a set of rows
    referrals,          \* table referrals, a set of rows
    clarifications,     \* table clarifications, in insertion (id) order
    quick_templates,    \* ids of the stored quick templates
    last                \* the handler that ran last and what it answered

vars == <<now, payment_test_mode, agreements, fsm, data, invoice_task, orders,
          promo_codes, used_promo_codes, referrals, clarifications,
          quick_templates, last>>

dbvars == <<orders, promo_codes, used_promo_codes, referrals, clarifications,
            quick_templates>>

-----------------------------------------------------------------------------
(* Bounds of the model *)

MaxOrders == 1
MaxRaceOrders == 2
MaxClarifications == 2

\* clarifications explored where two orders wait for new documents
MaxRequestClarifications == 3
MaxTime == 2

(* Program constants *)

KOPECKS == 100                    \* payment_handlers.py: amount = price * 100
MIN_PRICE == 1                    \* cmd_change_price: new_price <= 0 rejected
MAX_PRICE == 10000                \* cmd_change_price: new_price > 10000 rejected
REFERRED_DISCOUNT_PERCENT == 10   \* config.REFERRED_DISCOUNT_PERCENT
MAX_DOCUMENTS == 2                \* config.MAX_DOCUMENTS
MIN_QUESTION_LENGTH == 10         \* handle_questions_input: len(user_questions) < 10
CLARIFICATION_TIME_LIMIT == 1     \* config.CLARIFICATION_TIME_LIMIT_HOURS, in clock units
ADMIN_ID == 99                    \* config.ADMIN_ID

Users == {1}
OtherUsers == {3}
AllUsers == Users \cup OtherUsers
Referrers == {2}

-----------------------------------------------------------------------------
(* Session (aiogram FSM with MemoryStorage) *)

NoData ==
    [needs_demographics |-> TRUE, original_price |-> 0, current_price |-> 0,
     discount_applied |-> 0, discount_type |-> "none", promo_code |-> "",
     order_id |-> 0, clarification_order_id |-> 0,
     has_age |-> FALSE, documents |-> 0, document_types |-> 0,
     waiting_for_questions |-> FALSE]

\* the handle_promo_code executions of a user suspended before the invoice
NoTask == {}

\* what a handler did: its reply to the sender and, in notified, the other
\* chat it sent a message to (0: none)
AnswerNotifying(op, u, o, r, to) ==
    [op |-> op, user |-> u, order |-> o, result |-> r, notified |-> to]

Answer(op, u, o, r) == AnswerNotifying(op, u, o, r, 0)

-----------------------------------------------------------------------------
(* Arithmetic *)

Max(a, b) == IF a >= b THEN a ELSE b

\* int(x): truncation of a non-negative amount to whole roubles
IntRoubles(x) == (x \div KOPECKS) * KOPECKS

\* round-half-up to whole roubles (section 4.2 step 3)
RoundRoubles(x) == ((x + (KOPECKS \div 2)) \div KOPECKS) * KOPECKS

-----------------------------------------------------------------------------
(* Store operations (database/database.py, modelled from the specification) *)

OrderIds == 1..Len(orders)

OrderExists(o) == o \in OrderIds /\ orders[o].exists

\* db.create_prepaid_order: section 4.1 create -> Created
NewOrder(u, price, original_price, discount_applied, discount_type, promo_code, nd) ==
    [exists |-> TRUE, old |-> FALSE, user_id |-> u, status |-> "created",
     price |-> price, original_price |-> original_price,
     discount_applied |-> discount_applied, discount_type |-> discount_type,
     promo_code |-> promo_code, referrer_id |-> 0, needs_demographics |-> nd,
     clarification_count |-> 0, can_clarify_until |-> 0, updated_at |-> now,
     invoice_payload |-> FALSE, details |-> FALSE, documents |-> 0]

\* db.check_referral_discount: section 4.4 checkEligibility
check_referral_discount(u) ==
    \E r \in referrals : r.referred_id = u /\ r.status = "pending"

\* db.create_referral: section 4.4 createReferral
create_referral(referrer, referred) ==
    IF referrer = referred
       \/ \E r \in referrals : r.referrer_id = referrer /\ r.referred_id = referred
    THEN referrals
    ELSE referrals \cup {[referrer_id |-> referrer, referred_id |-> referred,
                          status |-> "pending", order_id |-> 0, old |-> FALSE]}

\* db.apply_promo_code, the outcome: section 4.3 apply
PromoError(code, u) ==
    IF code \notin DOMAIN promo_codes THEN "NotFound"
    ELSE IF ~promo_codes[code].active THEN "Inactive"
    ELSE IF promo_codes[code].uses_left = 0 THEN "Exhausted"
    ELSE IF \E x \in used_promo_codes : x.code = code /\ x.user_id = u
         THEN "AlreadyUsedByUser"
    ELSE ""

\* db.apply_promo_code, the price: section 4.2 steps 2-3
PromoNewPrice(code, price) ==
    IF promo_codes[code].kind = "percent"
    THEN RoundRoubles((price * (100 - promo_codes[code].value)) \div 100)
    ELSE Max(0, price - promo_codes[code].value * KOPECKS)

\* a ledger that forgets to count the use
PromoNotConsumed(code) == promo_codes

\* db.apply_promo_code, the ledger: uses_left decremented unless unlimited
PromoConsumed(code) ==
    [promo_codes EXCEPT ![code].uses_left = IF @ = -1 THEN -1 ELSE @ - 1]

\* db.apply_referral_discount: section 4.4 applyDiscount
ReferralFinalPrice(base) ==
    RoundRoubles(base - (base * REFERRED_DISCOUNT_PERCENT) \div 100)

PendingReferralsOf(u) ==
    {r \in referrals : r.referred_id = u /\ r.status = "pending"}

\* class OrderStatus(str, Enum): the values
OrderStatus == {"pending", "processing", "completed", "paid", "cancelled",
                "awaiting_clarification", "needs_new_docs"}

-----------------------------------------------------------------------------
(* Initial state: an empty store, no sessions *)

Init ==
    /\ now = 0
    /\ payment_test_mode \in BOOLEAN
    /\ agreements = {}
    /\ fsm = [u \in AllUsers |-> "none"]
    /\ data = [u \in AllUsers |-> NoData]
    /\ invoice_task = [u \in AllUsers |-> NoTask]
    /\ orders = << >>
    /\ promo_codes = << >>
    /\ used_promo_codes = {}
    /\ referrals = {}
    /\ clarifications = << >>
    /\ quick_templates = {}
    /\ last = Answer("init", 0, 0, "")

-----------------------------------------------------------------------------
(* Environment *)

Tick ==
    /\ now < MaxTime
    /\ now' = now + 1
    /\ last' = Answer("Tick", 0, 0, "")
    /\ UNCHANGED <<payment_test_mode, agreements, fsm, data, invoice_task, dbvars>>

\* a pending referral becomes older than 30 days
AgeReferral ==
    /\ \E r \in referrals :
          /\ ~r.old
          /\ referrals' = (referrals \ {r}) \cup {[r EXCEPT !.old = TRUE]}
    /\ last' = Answer("AgeReferral", 0, 0, "")
    /\ UNCHANGED <<now, payment_test_mode, agreements, fsm, data, invoice_task,
                   orders, promo_codes, used_promo_codes, clarifications,
                   quick_templates>>

\* an order becomes older than 90 days
AgeOrder(o) ==
    /\ OrderExists(o)
    /\ ~orders[o].old
    /\ orders' = [orders EXCEPT ![o].old = TRUE]
    /\ last' = Answer("AgeOrder", 0, o, "")
    /\ UNCHANGED <<now, payment_test_mode, agreements, fsm, data, invoice_task,
                   promo_codes, used_promo_codes, referrals, clarifications,
                   quick_templates>>

-----------------------------------------------------------------------------
(* Intake: handlers/user_handlers.py, handlers/common_handlers.py *)

\* callback agreement_accept
handle_agreement_accept(u) ==
    /\ agreements' = agreements \cup {u}
    /\ last' = Answer("handle_agreement_accept", u, 0, "accepted")
    /\ UNCHANGED <<now, payment_test_mode, fsm, data, invoice_task, dbvars>>

\* inline button "agreement_reject": an answer, nothing recorded
handle_agreement_reject(u) ==
    /\ last' = Answer("handle_agreement_reject", u, 0, "rejected")
    /\ UNCHANGED <<now, payment_test_mode, agreements, fsm, data, invoice_task,
                   dbvars>>

\* the first argument of /start as a sequence of pieces: the text "ref_",
\* a decimal digit, or any other character
RefPiece == [kind |-> "ref_", value |-> 0]

Digit(d) == [kind |-> "digit", value |-> d]

Letter == [kind |-> "letter", value |-> 0]

NoPayload == << >>

\* the link t.me/<bot>?start=ref_<r> for a one-digit id
RefLink(r) == <<RefPiece, Digit(r)>>

\* args[1].startswith('ref_')
StartsWithRef(payload) == payload # << >> /\ payload[1].kind = "ref_"

\* str.replace('ref_', ''): every occurrence is removed
WithoutRef(payload) == SelectSeq(payload, LAMBDA t : t.kind # "ref_")

\* int(text) succeeds on a non-empty run of decimal digits, else ValueError
IsDecimal(text) ==
    text # << >> /\ \A i \in 1..Len(text) : text[i].kind = "digit"

RECURSIVE DecimalValue(_)
DecimalValue(text) ==
    IF text = << >> THEN 0
    ELSE 10 * DecimalValue(SubSeq(text, 1, Len(text) - 1)) + text[Len(text)].value

\* /start [payload]
cmd_start(u, payload) ==
    /\ fsm' = [fsm EXCEPT ![u] = "none"]
    /\ data' = [data EXCEPT ![u] = NoData]
    /\ referrals' =
          IF StartsWithRef(payload) /\ IsDecimal(WithoutRef(payload))
             /\ DecimalValue(WithoutRef(payload)) # u
          THEN create_referral(DecimalValue(WithoutRef(payload)), u)
          ELSE referrals
    /\ last' = Answer("cmd_start", u, 0, "welcome")
    /\ UNCHANGED <<now, payment_test_mode, agreements, invoice_task, orders,
                   promo_codes, used_promo_codes, clarifications, quick_templates>>

\* "Create order" button without the test of the recorded agreement
start_order_new_flow_unchecked(u) ==
    /\ fsm' = [fsm EXCEPT ![u] = "waiting_for_service"]
    /\ data' = [data EXCEPT ![u] = NoData]
    /\ last' = Answer("start_order_new_flow", u, 0, "step1")
    /\ UNCHANGED <<now, payment_test_mode, agreements, invoice_task, dbvars>>

\* "Create order" button
start_order_new_flow(u) ==
    /\ IF u \notin agreements
       THEN /\ last' = Answer("start_order_new_flow", u, 0, "agreement")
            /\ UNCHANGED <<fsm, data>>
       ELSE /\ fsm' = [fsm EXCEPT ![u] = "waiting_for_service"]
            /\ data' = [data EXCEPT ![u] = NoData]
            /\ last' = Answer("start_order_new_flow", u, 0, "step1")
    /\ UNCHANGED <<now, payment_test_mode, agreements, invoice_task, dbvars>>

\* "Cancel order" button, in any state
cancel_order(u) ==
    /\ fsm' = [fsm EXCEPT ![u] = "none"]
    /\ data' = [data EXCEPT ![u] = NoData]
    /\ last' = Answer("cancel_order", u, 0, "cancelled")
    /\ UNCHANGED <<now, payment_test_mode, agreements, invoice_task, dbvars>>

\* a service button; svc = [price, needs_demographics], price in roubles
handle_service_selection(u, svc) ==
    /\ fsm[u] = "waiting_for_service"
    /\ LET original_price == svc.price * KOPECKS
           has_referral_discount == check_referral_discount(u)
           discount_amount == (original_price * REFERRED_DISCOUNT_PERCENT) \div 100
           final_price == IF has_referral_discount
                          THEN Max(0, original_price - discount_amount)
                          ELSE original_price
       IN /\ data' = [data EXCEPT ![u] =
                 [@ EXCEPT !.original_price = original_price,
                           !.current_price = IntRoubles(final_price),
                           !.needs_demographics = svc.needs_demographics,
                           !.discount_applied =
                               IF has_referral_discount
                               THEN original_price - final_price ELSE 0,
                           !.discount_type =
                               IF has_referral_discount THEN "referral" ELSE "none"]]
          /\ fsm' = [fsm EXCEPT ![u] = "waiting_for_promo"]
          /\ last' = Answer("handle_service_selection", u, 0, "step2")
    /\ UNCHANGED <<now, payment_test_mode, agreements, invoice_task, dbvars>>

\* a promo step that leaves the session in waiting_for_promo
PromoStepStays == "waiting_for_promo"

\* await state.set_state(OrderState.waiting_for_payment), before the order
\* is created and before anything is sent
PromoStepLeadsTo == "waiting_for_payment"

\* the promo step up to the first suspension (lines 407-492): promo
\* application, order creation, referral application.  text = "" is "skip".
handle_promo_code(u, text) ==
    /\ fsm[u] = "waiting_for_promo"
    /\ LET d == data[u]
           entered == text # ""
           err == IF entered THEN PromoError(text, u) ELSE ""
       IN IF err # ""
          THEN /\ last' = Answer("handle_promo_code", u, 0, err)
               /\ UNCHANGED <<fsm, data, invoice_task, orders, promo_codes,
                              used_promo_codes, referrals>>
          ELSE
            LET new_price == IF entered THEN PromoNewPrice(text, d.current_price)
                             ELSE d.current_price
                promo_discount == IF entered THEN d.current_price - new_price ELSE 0
                total_discount == d.discount_applied + promo_discount
                discount_type == IF entered THEN "promo" ELSE d.discount_type
                temp_order_id == Len(orders) + 1
                row == NewOrder(u, new_price, d.original_price, total_discount,
                                discount_type, text, d.needs_demographics)
                apply_referral == d.discount_type = "referral"
                pend == PendingReferralsOf(u)
                referred == apply_referral /\ pend # {}
                ref == IF referred THEN CHOOSE r \in pend : TRUE
                       ELSE [referrer_id |-> 0]
                final_price == ReferralFinalPrice(d.original_price)
                current_price == IF referred THEN final_price ELSE new_price
            IN /\ promo_codes' = IF entered THEN PromoConsumed(text) ELSE promo_codes
               /\ used_promo_codes' =
                     IF entered
                     THEN used_promo_codes \cup
                          {[code |-> text, user_id |-> u, order_id |-> 0,
                            discount_amount |-> promo_discount]}
                     ELSE used_promo_codes
               /\ orders' = Append(orders,
                     IF referred
                     THEN [row EXCEPT !.referrer_id = ref.referrer_id,
                                      !.price = final_price]
                     ELSE row)
               /\ referrals' =
                     IF referred
                     THEN (referrals \ {ref}) \cup
                          {[ref EXCEPT !.status = "completed",
                                       !.order_id = temp_order_id]}
                     ELSE referrals
               /\ fsm' = [fsm EXCEPT ![u] = PromoStepLeadsTo]
               /\ data' = [data EXCEPT ![u] =
                     [@ EXCEPT !.current_price = current_price,
                               !.discount_applied = total_discount,
                               !.discount_type = discount_type,
                               !.promo_code = text,
                               !.order_id = temp_order_id]]
               /\ invoice_task' = [invoice_task EXCEPT ![u] =
                     @ \cup {[order_id |-> temp_order_id,
                              needs_demographics |-> d.needs_demographics]}]
               /\ last' = Answer("handle_promo_code", u, temp_order_id, "step3")
    /\ UNCHANGED <<now, payment_test_mode, agreements, clarifications,
                   quick_templates>>

\* db.set_invoice_payload: the payload of the invoice kept on the order
set_invoice_payload(o) ==
    IF OrderExists(o) THEN [orders EXCEPT ![o].invoice_payload = TRUE] ELSE orders

\* db.process_payment, the test: section 4.1 markPaid fails unless the order
\* found by its payload is Created
CanMarkPaid(ords, o) ==
    /\ o \in 1..Len(ords)
    /\ ords[o].exists
    /\ ords[o].invoice_payload
    /\ ords[o].status = "created"

\* db.process_payment, the update: section 4.1 markPaid -> Pending
MarkedPaid(ords, o) ==
    [ords EXCEPT ![o].status = "pending", ![o].updated_at = now]

\* the rest of the promo step (lines 494-640), after the handler was suspended
\* in message.answer / asyncio.sleep: send_invoice_to_user and what follows.
\* Test mode: db.set_invoice_payload, db.process_payment (section 4.1
\* markPaid: only from Created).  Live mode: send_invoice_to_user is called
\* without a bot, bot.send_invoice raises and the function returns (False, None).
handle_promo_code_invoice(u) ==
    /\ \E t \in invoice_task[u] :
        LET o == t.order_id
            billed == set_invoice_payload(o)
            success == payment_test_mode /\ CanMarkPaid(billed, o)
        IN /\ invoice_task' = [invoice_task EXCEPT ![u] = @ \ {t}]
           /\ IF success
              THEN /\ orders' = MarkedPaid(billed, o)
                   /\ data' = [data EXCEPT ![u] =
                         [@ EXCEPT !.order_id = o,
                                   !.has_age = IF t.needs_demographics THEN @
                                               ELSE TRUE]]
                   /\ fsm' = [fsm EXCEPT ![u] =
                         IF t.needs_demographics THEN "waiting_for_demographics"
                         ELSE "waiting_for_docs_and_questions"]
                   /\ last' = Answer("handle_promo_code_invoice", u, o, "paid")
              ELSE /\ fsm' = [fsm EXCEPT ![u] = "none"]
                   /\ data' = [data EXCEPT ![u] = NoData]
                   /\ last' = Answer("handle_promo_code_invoice", u, o,
                                     "invoice_failed")
                   /\ orders' = billed
    /\ UNCHANGED <<now, payment_test_mode, agreements, promo_codes,
                   used_promo_codes, referrals, clarifications, quick_templates>>

-----------------------------------------------------------------------------
(* Payments: handlers/payment_handlers.py *)

\* pre_checkout_query for the invoice of order o: answered ok=True whatever
\* the order is
process_pre_checkout_query(u, o) ==
    /\ last' = Answer("process_pre_checkout_query", u, o, "ok")
    /\ UNCHANGED <<now, payment_test_mode, agreements, fsm, data, invoice_task,
                   dbvars>>

\* a successful_payment message carrying the invoice payload of order o
process_successful_payment(u, o) ==
    /\ IF payment_test_mode
       THEN /\ last' = Answer("process_successful_payment", u, o, "ignored")
            /\ UNCHANGED <<fsm, data, orders>>
       ELSE IF CanMarkPaid(orders, o)
       THEN /\ orders' = MarkedPaid(orders, o)
            /\ data' = [data EXCEPT ![u] =
                  [@ EXCEPT !.order_id = o,
                            !.has_age = IF orders[o].needs_demographics THEN @
                                        ELSE TRUE]]
            /\ fsm' = [fsm EXCEPT ![u] =
                  IF orders[o].needs_demographics THEN "waiting_for_demographics"
                  ELSE "waiting_for_docs_and_questions"]
            /\ last' = Answer("process_successful_payment", u, o, "paid")
       ELSE /\ last' = Answer("process_successful_payment", u, o, "payment_error")
            /\ UNCHANGED <<fsm, data, orders>>
    /\ UNCHANGED <<now, payment_test_mode, agreements, invoice_task, promo_codes,
                   used_promo_codes, referrals, clarifications, quick_templates>>

-----------------------------------------------------------------------------
(* Store operations used by the operator and clarification handlers *)

\* db.update_order_status: repository updateStatus; Completed sets
\* answered_at and can_clarify_until = now + window (section 4.1)
StatusUpdated(ords, o, status) ==
    [ords EXCEPT ![o].status = status,
                 ![o].updated_at = now,
                 ![o].can_clarify_until =
                     IF status = "completed" THEN now + CLARIFICATION_TIME_LIMIT
                     ELSE @]

update_order_status(o, status) == StatusUpdated(orders, o, status)

\* db.add_clarification, the row: section 4.5 submit
NewClarification(o, author, message_type, is_from_user, is_admin_request) ==
    [order_id |-> o, user_id |-> author, message_type |-> message_type,
     is_from_user |-> is_from_user, is_admin_request |-> is_admin_request,
     sent_at |-> now]

\* db.add_clarification, the order: clarification_count incremented,
\* can_clarify_until not extended
CountClarification(ords, o) ==
    IF o \in DOMAIN ords
    THEN [ords EXCEPT ![o].clarification_count = @ + 1]
    ELSE ords

\* db.can_user_clarify: section 4.5 canSubmit
can_user_clarify(o, u) ==
    /\ OrderExists(o)
    /\ orders[o].status = "completed"
    /\ now <= orders[o].can_clarify_until

\* a weaker test that lets a cancelled order through
TerminalCompletedOnly(status) == status = "completed"

\* the closed statuses the operator's /complete_ and /cancel_ refuse
Terminal(status) == status \in {"completed", "cancelled"}

-----------------------------------------------------------------------------
(* Order details: demographics, documents and the question *)

\* db.update_order_details: repository updateDetails
update_order_details(o, documents) ==
    IF OrderExists(o)
    THEN [orders EXCEPT ![o].details = TRUE, ![o].documents = documents]
    ELSE orders

\* any message in waiting_for_demographics: the age first, then the sex;
\* valid says whether the text is an age of 0..120, or one of the sex buttons
handle_demographics(u, valid) ==
    /\ fsm[u] = "waiting_for_demographics"
    /\ IF ~data[u].has_age
       THEN IF valid
            THEN /\ data' = [data EXCEPT ![u].has_age = TRUE]
                 /\ last' = Answer("handle_demographics", u, 0, "age_saved")
                 /\ UNCHANGED fsm
            ELSE /\ last' = Answer("handle_demographics", u, 0, "bad_age")
                 /\ UNCHANGED <<fsm, data>>
       ELSE IF valid
            THEN /\ fsm' = [fsm EXCEPT ![u] = "waiting_for_docs_and_questions"]
                 /\ data' = [data EXCEPT ![u].documents = 0,
                                          ![u].document_types = 0]
                 /\ last' = Answer("handle_demographics", u, 0, "sex_saved")
            ELSE /\ last' = Answer("handle_demographics", u, 0, "bad_sex")
                 /\ UNCHANGED <<fsm, data>>
    /\ UNCHANGED <<now, payment_test_mode, agreements, invoice_task, dbvars>>

\* the same without the test against MAX_DOCUMENTS
StoreDocumentUnlimited(op, u, valid) ==
    /\ fsm[u] = "waiting_for_docs_and_questions"
    /\ IF ~valid
       THEN /\ last' = Answer(op, u, 0, "invalid")
            /\ UNCHANGED data
       ELSE /\ data' = [data EXCEPT ![u].documents = @ + 1,
                                    ![u].document_types = @ + 1]
            /\ last' = Answer(op, u, 0, "stored")
    /\ UNCHANGED <<now, payment_test_mode, agreements, fsm, invoice_task, dbvars>>

\* a photo or a file in waiting_for_docs_and_questions; valid is the
\* validator's verdict, awaited before the session is read. From
\* state.get_data() to state.update_data() the handler awaits only the
\* MemoryStorage, which never suspends it: the test and the two appends are
\* one step, and two uploads interleave only as whole steps. documents and
\* document_types are the lengths of the session's two lists
StoreDocument(op, u, valid) ==
    /\ fsm[u] = "waiting_for_docs_and_questions"
    /\ IF ~valid
       THEN /\ last' = Answer(op, u, 0, "invalid")
            /\ UNCHANGED data
       ELSE IF data[u].documents >= MAX_DOCUMENTS
       THEN /\ last' = Answer(op, u, 0, "limit")
            /\ UNCHANGED data
       ELSE /\ data' = [data EXCEPT ![u].documents = @ + 1,
                                    ![u].document_types = @ + 1]
            /\ last' = Answer(op, u, 0, "stored")
    /\ UNCHANGED <<now, payment_test_mode, agreements, fsm, invoice_task, dbvars>>

handle_document_photo(u, valid) == StoreDocument("handle_document_photo", u, valid)

handle_document_file(u, valid) == StoreDocument("handle_document_file", u, valid)

\* the button "✅ Отправить на обработку"
finish_order(u) ==
    /\ fsm[u] = "waiting_for_docs_and_questions"
    /\ IF data[u].documents = 0
       THEN /\ last' = Answer("finish_order", u, 0, "no_documents")
            /\ UNCHANGED data
       ELSE /\ data' = [data EXCEPT ![u].waiting_for_questions = TRUE]
            /\ last' = Answer("finish_order", u, 0, "ask_question")
    /\ UNCHANGED <<now, payment_test_mode, agreements, fsm, invoice_task, dbvars>>

\* len(message.text.strip()) < 10 is refused
QuestionLongEnough(length) == length >= MIN_QUESTION_LENGTH

\* any other text in waiting_for_docs_and_questions; length is the length of
\* the stripped text, store_ok says whether db.update_order_status went
\* through after db.update_order_details (a store error is raised out of
\* the handler, which has no try block).  The messages awaited before the
\* final state.clear() only send
handle_questions_input(u, length, store_ok) ==
    /\ fsm[u] = "waiting_for_docs_and_questions"
    /\ LET o == data[u].order_id
       IN IF ~data[u].waiting_for_questions
          THEN /\ last' = Answer("handle_questions_input", u, o, "ignored")
               /\ UNCHANGED <<fsm, data, orders>>
          ELSE IF ~QuestionLongEnough(length)
          THEN /\ last' = Answer("handle_questions_input", u, o, "too_short")
               /\ UNCHANGED <<fsm, data, orders>>
          ELSE IF o = 0
          THEN /\ fsm' = [fsm EXCEPT ![u] = "none"]
               /\ data' = [data EXCEPT ![u] = NoData]
               /\ last' = Answer("handle_questions_input", u, o, "no_order")
               /\ UNCHANGED orders
          ELSE IF ~store_ok
          THEN /\ orders' = update_order_details(o, data[u].documents)
               /\ last' = Answer("handle_questions_input", u, o, "store_error")
               /\ UNCHANGED <<fsm, data>>
          ELSE /\ orders' =
                     LET detailed == update_order_details(o, data[u].documents)
                     IN IF OrderExists(o)
                        THEN StatusUpdated(detailed, o, "processing")
                        ELSE detailed
               /\ fsm' = [fsm EXCEPT ![u] = "none"]
               /\ data' = [data EXCEPT ![u] = NoData]
               /\ last' = AnswerNotifying("handle_questions_input", u, o,
                                          "submitted", ADMIN_ID)
    /\ UNCHANGED <<now, payment_test_mode, agreements, invoice_task, promo_codes,
                   used_promo_codes, referrals, clarifications, quick_templates>>

-----------------------------------------------------------------------------
(* Operator commands: admin/admin_handlers.py (sender is ADMIN_ID) *)

\* float(parts[3]): a number, or the not-a-number that float('nan') yields
Float(n) == [nan |-> FALSE, v |-> n]

NaN == [nan |-> TRUE, v |-> 0]

\* x <= n and x > n on floats: every comparison with NaN is false
FloatLeq(x, n) == ~x.nan /\ x.v <= n

FloatGt(x, n) == ~x.nan /\ x.v > n

\* db.create_promo_code: section 4.3 create, the failures
create_promo_code_fails(code, kind, value) ==
    \/ code \in DOMAIN promo_codes
    \/ kind = "percent" /\ ~(FloatGt(value, 0) /\ FloatLeq(value, 100))
    \/ kind = "fixed" /\ FloatLeq(value, 0)

\* /create_promo <code> <kind> <value> <uses>
cmd_create_promo_code(code, kind, value, uses_left) ==
    /\ IF kind \notin {"percent", "fixed"}
       THEN /\ last' = Answer("cmd_create_promo_code", ADMIN_ID, 0, "bad_kind")
            /\ UNCHANGED promo_codes
       ELSE IF kind = "percent" /\ (FloatLeq(value, 0) \/ FloatGt(value, 100))
       THEN /\ last' = Answer("cmd_create_promo_code", ADMIN_ID, 0, "bad_percent")
            /\ UNCHANGED promo_codes
       ELSE IF kind = "fixed" /\ FloatLeq(value, 0)
       THEN /\ last' = Answer("cmd_create_promo_code", ADMIN_ID, 0, "bad_fixed")
            /\ UNCHANGED promo_codes
       ELSE IF create_promo_code_fails(code, kind, value)
       THEN /\ last' = Answer("cmd_create_promo_code", ADMIN_ID, 0, "error")
            /\ UNCHANGED promo_codes
       ELSE /\ promo_codes' = (code :> [kind |-> kind, value |-> value.v,
                                        nan |-> value.nan,
                                        uses_left |-> uses_left, active |-> TRUE])
                              @@ promo_codes
            /\ last' = Answer("cmd_create_promo_code", ADMIN_ID, 0, "created")
    /\ UNCHANGED <<now, payment_test_mode, agreements, fsm, data, invoice_task,
                   orders, used_promo_codes, referrals, clarifications,
                   quick_templates>>

\* /price_<id> <new_price>, new_price in roubles
cmd_change_price(o, new_price) ==
    /\ IF new_price < MIN_PRICE \/ new_price > MAX_PRICE
       THEN /\ last' = Answer("cmd_change_price", ADMIN_ID, o, "bad_price")
            /\ UNCHANGED orders
       ELSE IF ~OrderExists(o)
       THEN /\ last' = Answer("cmd_change_price", ADMIN_ID, o, "not_found")
            /\ UNCHANGED orders
       ELSE /\ orders' = [orders EXCEPT ![o].price = new_price * KOPECKS]
            /\ last' = Answer("cmd_change_price", ADMIN_ID, o, "changed")
    /\ UNCHANGED <<now, payment_test_mode, agreements, fsm, data, invoice_task,
                   promo_codes, used_promo_codes, referrals, clarifications,
                   quick_templates>>

\* /cleanup_old
cmd_cleanup_old ==
    LET gone == {o \in OrderIds : orders[o].exists /\ orders[o].old
                                  /\ Terminal(orders[o].status)}
        kept == {o \in OrderIds : orders[o].exists /\ o \notin gone}
    IN /\ orders' = [o \in OrderIds |->
                        IF o \in gone THEN [orders[o] EXCEPT !.exists = FALSE]
                        ELSE orders[o]]
       /\ clarifications' = SelectSeq(clarifications, LAMBDA c : c.order_id \in kept)
       /\ used_promo_codes' = {x \in used_promo_codes : x.order_id \in kept}
       /\ referrals' = {r \in referrals :
                           ~(r.status = "pending" /\ r.old /\ r.order_id = 0)}
       /\ last' = Answer("cmd_cleanup_old", ADMIN_ID, 0, "cleaned")
       /\ UNCHANGED <<now, payment_test_mode, agreements, fsm, data, invoice_task,
                      promo_codes, quick_templates>>

\* /template_add <name> <text>
template_add(t) ==
    /\ quick_templates' = quick_templates \cup {t}
    /\ last' = Answer("template_add", ADMIN_ID, 0, "added")
    /\ UNCHANGED <<now, payment_test_mode, agreements, fsm, data, invoice_task,
                   orders, promo_codes, used_promo_codes, referrals, clarifications>>

\* what /send_<id> and /template<n>_<id> do once the order is found:
\* status Completed, then the answer stored as an operator clarification
Respond(op, o) ==
    /\ Len(clarifications) < MaxClarifications
    /\ orders' = CountClarification(update_order_status(o, "completed"), o)
    /\ clarifications' = Append(clarifications,
                                NewClarification(o, ADMIN_ID, "text", FALSE, FALSE))
    /\ last' = AnswerNotifying(op, ADMIN_ID, o, "sent", orders[o].user_id)

\* /send_<id> <answer>
cmd_send_to_order(o) ==
    /\ IF ~OrderExists(o)
       THEN /\ last' = Answer("cmd_send_to_order", ADMIN_ID, o, "not_found")
            /\ UNCHANGED <<orders, clarifications>>
       ELSE Respond("cmd_send_to_order", o)
    /\ UNCHANGED <<now, payment_test_mode, agreements, fsm, data, invoice_task,
                   promo_codes, used_promo_codes, referrals, quick_templates>>

\* /template<t>_<id>
handle_quick_template(t, o) ==
    /\ IF quick_templates = {}
       THEN /\ last' = Answer("handle_quick_template", ADMIN_ID, o, "no_templates")
            /\ UNCHANGED <<orders, clarifications>>
       ELSE IF t \notin quick_templates
       THEN /\ last' = Answer("handle_quick_template", ADMIN_ID, o, "no_template")
            /\ UNCHANGED <<orders, clarifications>>
       ELSE IF ~OrderExists(o)
       THEN /\ last' = Answer("handle_quick_template", ADMIN_ID, o, "not_found")
            /\ UNCHANGED <<orders, clarifications>>
       ELSE Respond("handle_quick_template", o)
    /\ UNCHANGED <<now, payment_test_mode, agreements, fsm, data, invoice_task,
                   promo_codes, used_promo_codes, referrals, quick_templates>>

\* /complete_<id> and /cancel_<id>: the handler itself refuses terminal orders
SetTerminal(op, o, status) ==
    /\ IF ~OrderExists(o)
       THEN /\ last' = Answer(op, ADMIN_ID, o, "not_found")
            /\ UNCHANGED orders
       ELSE IF Terminal(orders[o].status)
       THEN /\ last' = Answer(op, ADMIN_ID, o, "already")
            /\ UNCHANGED orders
       ELSE /\ orders' = update_order_status(o, status)
            /\ last' = AnswerNotifying(op, ADMIN_ID, o, "done", orders[o].user_id)
    /\ UNCHANGED <<now, payment_test_mode, agreements, fsm, data, invoice_task,
                   promo_codes, used_promo_codes, referrals, clarifications,
                   quick_templates>>

cmd_complete_order(o) == SetTerminal("cmd_complete_order", o, "completed")

cmd_cancel_order(o) == SetTerminal("cmd_cancel_order", o, "cancelled")

\* a store that marks any order
mark_order_needs_new_docs_always(status) == TRUE

\* db.mark_order_needs_new_docs, the test: section 4.1
\* operatorRequestNewDocs fails if the order is already terminal
mark_order_needs_new_docs_allowed(status) ==
    status \notin {"completed", "cancelled"}

\* /redocs_<id> <reason>; db.mark_order_needs_new_docs is section 4.1
\* operatorRequestNewDocs: fails on a terminal order, else NeedsNewDocs and
\* an admin-request clarification as the cutoff marker
cmd_request_new_docs(o) ==
    /\ IF ~OrderExists(o)
       THEN /\ last' = Answer("cmd_request_new_docs", ADMIN_ID, o, "not_found")
            /\ UNCHANGED <<orders, clarifications>>
       ELSE IF ~mark_order_needs_new_docs_allowed(orders[o].status)
       THEN /\ last' = Answer("cmd_request_new_docs", ADMIN_ID, o, "error")
            /\ UNCHANGED <<orders, clarifications>>
       ELSE /\ Len(clarifications) < MaxClarifications
            /\ orders' = update_order_status(o, "needs_new_docs")
            /\ clarifications' = Append(clarifications,
                                   NewClarification(o, ADMIN_ID, "text", FALSE, TRUE))
            /\ last' = AnswerNotifying("cmd_request_new_docs", ADMIN_ID, o,
                                       "requested", orders[o].user_id)
    /\ UNCHANGED <<now, payment_test_mode, agreements, fsm, data, invoice_task,
                   promo_codes, used_promo_codes, referrals, quick_templates>>

\* /clarify_answer_<clarification id> <answer>
cmd_answer_clarification(c) ==
    /\ IF c \notin 1..Len(clarifications)
       THEN /\ last' = Answer("cmd_answer_clarification", ADMIN_ID, 0, "not_found")
            /\ UNCHANGED <<orders, clarifications>>
       ELSE LET o == clarifications[c].order_id
            IN IF ~OrderExists(o)
               THEN /\ last' = Answer("cmd_answer_clarification", ADMIN_ID, o,
                                      "order_not_found")
                    /\ UNCHANGED <<orders, clarifications>>
               ELSE /\ Len(clarifications) < MaxClarifications
                    /\ clarifications' = Append(clarifications,
                          NewClarification(o, ADMIN_ID, "text", FALSE, FALSE))
                    /\ orders' = StatusUpdated(
                                    CountClarification(orders, o), o, "completed")
                    /\ last' = AnswerNotifying("cmd_answer_clarification",
                                               ADMIN_ID, o, "sent",
                                               orders[o].user_id)
    /\ UNCHANGED <<now, payment_test_mode, agreements, fsm, data, invoice_task,
                   promo_codes, used_promo_codes, referrals, quick_templates>>

-----------------------------------------------------------------------------
(* Clarifications and re-submission of documents: handlers/user_handlers.py *)

\* Handlers registered without a state filter are reached only when no
\* earlier handler of the router takes the message: the catch-all handlers
\* of waiting_for_service, waiting_for_promo, waiting_for_demographics and
\* the F.text / F.photo / F.document handlers of
\* waiting_for_docs_and_questions and waiting_for_clarification come first.
ReachesStatelessHandler(u) == fsm[u] \in {"none", "waiting_for_payment"}

NeedsNewDocsOrders(u) ==
    {o \in OrderIds : orders[o].exists /\ orders[o].user_id = u
                      /\ orders[o].status = "needs_new_docs"}

\* ... ORDER BY updated_at DESC LIMIT 1
LatestNeedsNewDocs(u) ==
    {o \in NeedsNewDocsOrders(u) :
        \A p \in NeedsNewDocsOrders(u) : orders[p].updated_at <= orders[o].updated_at}

AdminRequests(o) ==
    {i \in 1..Len(clarifications) :
        clarifications[i].order_id = o /\ clarifications[i].is_admin_request}

\* NewDocsCount with the message_type condition of the query left out
NewDocsCountAnyType(o, u) ==
    IF AdminRequests(o) = {} THEN 0
    ELSE LET cutoff == CHOOSE t \in {clarifications[i].sent_at : i \in AdminRequests(o)} :
                          \A i \in AdminRequests(o) : clarifications[i].sent_at <= t
         IN Cardinality({i \in 1..Len(clarifications) :
                /\ clarifications[i].order_id = o
                /\ clarifications[i].user_id = u
                /\ clarifications[i].is_from_user
                /\ clarifications[i].sent_at > cutoff})

\* SELECT COUNT(*) ... AND sent_at > (SELECT MAX(sent_at) ... is_admin_request)
\* (no admin request: MAX is NULL, the comparison is NULL, the count is 0)
NewDocsCount(o, u) ==
    IF AdminRequests(o) = {} THEN 0
    ELSE LET cutoff == CHOOSE t \in {clarifications[i].sent_at : i \in AdminRequests(o)} :
                          \A i \in AdminRequests(o) : clarifications[i].sent_at <= t
         IN Cardinality({i \in 1..Len(clarifications) :
                /\ clarifications[i].order_id = o
                /\ clarifications[i].user_id = u
                /\ clarifications[i].is_from_user
                /\ clarifications[i].message_type \in {"photo", "document"}
                /\ clarifications[i].sent_at > cutoff})

\* DocumentValidator.ALLOWED_MIME_TYPES.get(mime_type, DocumentType.OTHER).value
DocTypeValue(mime) ==
    IF mime = "pdf" THEN "pdf" ELSE IF mime = "word" THEN "doc" ELSE "other"

\* callback clarify_<id>
handle_clarification_request(u, o) ==
    /\ IF can_user_clarify(o, u)
       THEN /\ fsm' = [fsm EXCEPT ![u] = "waiting_for_clarification"]
            /\ data' = [data EXCEPT ![u].clarification_order_id = o]
            /\ last' = Answer("handle_clarification_request", u, o, "opened")
       ELSE /\ last' = Answer("handle_clarification_request", u, o, "refused")
            /\ UNCHANGED <<fsm, data>>
    /\ UNCHANGED <<now, payment_test_mode, agreements, invoice_task, dbvars>>

\* "Cancel clarification" button
cancel_clarification(u) ==
    /\ fsm[u] = "waiting_for_clarification"
    /\ fsm' = [fsm EXCEPT ![u] = "none"]
    /\ data' = [data EXCEPT ![u] = NoData]
    /\ last' = Answer("cancel_clarification", u, 0, "cancelled")
    /\ UNCHANGED <<now, payment_test_mode, agreements, invoice_task, dbvars>>

\* handle_clarification_text / _photo / _document: kind is the message_type
SubmitClarification(op, u, kind) ==
    /\ fsm[u] = "waiting_for_clarification"
    /\ LET o == data[u].clarification_order_id
       IN IF o = 0
          THEN /\ last' = Answer(op, u, 0, "no_order")
               /\ UNCHANGED <<orders, clarifications>>
          ELSE /\ Len(clarifications) < MaxClarifications
               /\ clarifications' = Append(clarifications,
                                      NewClarification(o, u, kind, TRUE, FALSE))
               /\ orders' = CountClarification(orders, o)
               /\ last' = Answer(op, u, o, "recorded")
    /\ fsm' = [fsm EXCEPT ![u] = "none"]
    /\ data' = [data EXCEPT ![u] = NoData]
    /\ UNCHANGED <<now, payment_test_mode, agreements, invoice_task, promo_codes,
                   used_promo_codes, referrals, quick_templates>>

handle_clarification_text(u) == SubmitClarification("handle_clarification_text", u, "text")

handle_clarification_photo(u) == SubmitClarification("handle_clarification_photo", u, "photo")

handle_clarification_document(u) ==
    SubmitClarification("handle_clarification_document", u, "document")

\* "Documents uploaded" button
handle_new_docs_uploaded(u) ==
    /\ ReachesStatelessHandler(u)
    /\ LET found == LatestNeedsNewDocs(u)
           sid == data[u].order_id
           fallback == IF sid # 0 /\ OrderExists(sid) /\ orders[sid].user_id = u
                       THEN {sid} ELSE {}
           targets == IF found # {} THEN found ELSE fallback
       IN IF targets = {}
          THEN /\ last' = Answer("handle_new_docs_uploaded", u, 0, "no_request")
               /\ UNCHANGED <<fsm, data, orders, clarifications>>
          ELSE \E o \in targets :
                 IF NewDocsCount(o, u) = 0
                 THEN /\ last' = Answer("handle_new_docs_uploaded", u, o, "no_new_docs")
                      /\ UNCHANGED <<fsm, data, orders, clarifications>>
                 ELSE /\ orders' = [orders EXCEPT
                             ![o].status = "pending",
                             ![o].updated_at = now,
                             ![o].clarification_count = @ + 1]
                      /\ clarifications' = Append(clarifications,
                             NewClarification(o, u, "text", TRUE, FALSE))
                      /\ fsm' = [fsm EXCEPT ![u] = "none"]
                      /\ data' = [data EXCEPT ![u] = NoData]
                      /\ last' = Answer("handle_new_docs_uploaded", u, o, "accepted")
    /\ UNCHANGED <<now, payment_test_mode, agreements, invoice_task, promo_codes,
                   used_promo_codes, referrals, quick_templates>>

\* a photo, a file or a text outside the intake; kind is "photo", "pdf",
\* "word" or "text", valid is the verdict of DocumentValidator, room is the
\* number of clarifications explored
StoreNewDocs(u, kind, valid, room) ==
    /\ ReachesStatelessHandler(u)
    /\ IF NeedsNewDocsOrders(u) = {}
       THEN /\ last' = Answer("handle_docs_for_order_needs_new_docs", u, 0, "ignored")
            /\ UNCHANGED <<orders, clarifications>>
       ELSE \E o \in NeedsNewDocsOrders(u) :
              IF kind # "text" /\ ~valid
              THEN /\ last' = Answer("handle_docs_for_order_needs_new_docs", u, o,
                                     "invalid")
                   /\ UNCHANGED <<orders, clarifications>>
              ELSE /\ Len(clarifications) < room
                   /\ clarifications' = Append(clarifications,
                         NewClarification(o, u,
                            IF kind \in {"photo", "text"} THEN kind
                            ELSE DocTypeValue(kind),
                            TRUE, FALSE))
                   /\ orders' = CountClarification(orders, o)
                   /\ last' = Answer("handle_docs_for_order_needs_new_docs", u, o,
                                     IF kind = "text" THEN "question_saved"
                                     ELSE "saved")
    /\ UNCHANGED <<now, payment_test_mode, agreements, fsm, data, invoice_task,
                   promo_codes, used_promo_codes, referrals, quick_templates>>

handle_docs_for_order_needs_new_docs(u, kind, valid) ==
    StoreNewDocs(u, kind, valid, MaxClarifications)

\* "Cancel" button
handle_cancel_new_docs_upload(u) ==
    /\ ReachesStatelessHandler(u)
    /\ fsm' = [fsm EXCEPT ![u] = "none"]
    /\ data' = [data EXCEPT ![u] = NoData]
    /\ IF NeedsNewDocsOrders(u) = {}
       THEN /\ last' = Answer("handle_cancel_new_docs_upload", u, 0, "cancelled")
            /\ UNCHANGED <<orders, clarifications>>
       ELSE \E o \in NeedsNewDocsOrders(u) :
              /\ Len(clarifications) < MaxClarifications
              /\ orders' = [orders EXCEPT ![o].status = "pending",
                                          ![o].updated_at = now]
              /\ clarifications' = Append(clarifications,
                                     NewClarification(o, u, "text", TRUE, FALSE))
              /\ last' = Answer("handle_cancel_new_docs_upload", u, o, "cancelled")
    /\ UNCHANGED <<now, payment_test_mode, agreements, invoice_task, promo_codes,
                   used_promo_codes, referrals, quick_templates>>

-----------------------------------------------------------------------------
(* Inputs *)

Services == {[price |-> 290, needs_demographics |-> TRUE],
             [price |-> 190, needs_demographics |-> FALSE]}

PromoTexts == {"", "SUMMER", "NOPE"}

NewPromos == {<<"SUMMER", "percent", 25, 1>>, <<"SUMMER", "fixed", 300, -1>>,
              <<"SUMMER", "percent", 0, 1>>}

NewPrices == {0, 100, 500}

MessageKinds == {"photo", "pdf", "word", "text"}

\* the service without the demographics step
ResubmitServices == {[price |-> 190, needs_demographics |-> FALSE]}

TemplateIds == {1}

AnyOrderId == 1..MaxOrders

\* /start alone or through a referrer's link
StartLinks == {NoPayload} \cup {RefLink(r) : r \in Referrers}

\* /start arguments typed by hand as well
StartPayloads ==
    StartLinks \cup {RefLink(u) : u \in AllUsers}
        \cup {<<RefPiece>>, <<Letter>>, <<Digit(2)>>, <<RefPiece, Letter>>,
               <<RefPiece, RefPiece, Digit(2)>>, <<RefPiece, Digit(1), Digit(2)>>,
               <<RefPiece, Digit(1), RefPiece, Digit(3)>>}

-----------------------------------------------------------------------------
(* Dispatch: Dispatcher.feed_update over the routers included in bot.py *)

\* a text message: its pieces (a button label is one piece, a command is its
\* prefix followed by the rest) and the order id the command carries
Text(pieces, arg) == [kind |-> "text", text |-> pieces, arg |-> arg]

\* a photo, a document or a successful_payment message for order arg
Media(kind, arg) == [kind |-> kind, text |-> << >>, arg |-> arg]

\* one decorator: the handler, its state filter ("any" without one), the
\* kind of message and the first piece it asks for; exact for F.text == label
OnAny(name) ==
    [name |-> name, state |-> "any", kind |-> "any", first |-> "", exact |-> FALSE]

InState(name, state) ==
    [name |-> name, state |-> state, kind |-> "any", first |-> "", exact |-> FALSE]

OnKind(name, state, kind) ==
    [name |-> name, state |-> state, kind |-> kind, first |-> "", exact |-> FALSE]

OnLabel(name, state, label) ==
    [name |-> name, state |-> state, kind |-> "text", first |-> label, exact |-> TRUE]

OnPrefix(name, prefix) ==
    [name |-> name, state |-> "any", kind |-> "text", first |-> prefix, exact |-> FALSE]

\* the labels handle_docs_for_order_needs_new_docs excludes: "Создать заказ",
\* "Мои заказы", "О сервисе", "Связаться", "Пригласить друга", "Главное
\* меню", "Отменить", "Документы загружены" and the admin menu
ExcludedLabels ==
    {<<"Sozdat zakaz">>, <<"Moi zakazy">>, <<"O servise">>, <<"Svyazatsya">>,
     <<"Priglasit druga">>, <<"Glavnoe menyu">>, <<"Otmenit">>,
     <<"Dokumenty zagruzheny">>, <<"Statistika">>, <<"Vse zakazy">>,
     <<"Ozhidayushchie">>, <<"Bekap">>, <<"Promokody">>, <<"Referaly">>,
     <<"Shablony">>}

\* the filters of one handler against the session's state and a message
Matches(h, state, m) ==
    /\ h.state \in {"any", state}
    /\ CASE h.kind = "any" -> TRUE
         [] h.kind = "text" ->
              /\ m.kind = "text"
              /\ h.first # "" =>
                   /\ m.text # << >>
                   /\ m.text[1] = h.first
                   /\ h.exact => Len(m.text) = 1
         [] h.kind = "photo_document_or_other_text" ->
              \/ m.kind \in {"photo", "document"}
              \/ m.kind = "text" /\ m.text \notin ExcludedLabels
         [] OTHER -> m.kind = h.kind

\* handlers/common_handlers.py, the message handlers in decorator order
CommonRouter ==
    <<OnLabel("handle_about_service", "any", "O servise"),
      OnLabel("handle_my_orders", "any", "Moi zakazy"),
      OnLabel("handle_agreement", "any", "Soglashenie"),
      OnAny("handle_unknown")>>

\* a user router that tries the state handlers before "Отменить заказ"
UserRouterStateFirst ==
    <<OnPrefix("cmd_start", "/start"),
      OnLabel("start_order_new_flow", "any", "Sozdat zakaz"),
      InState("handle_service_selection", "waiting_for_service"),
      InState("handle_promo_code", "waiting_for_promo"),
      InState("handle_demographics", "waiting_for_demographics"),
      OnKind("handle_document_photo", "waiting_for_docs_and_questions", "photo"),
      OnKind("handle_document_file", "waiting_for_docs_and_questions", "document"),
      OnLabel("finish_order", "waiting_for_docs_and_questions",
              "Otpravit na obrabotku"),
      OnKind("handle_questions_input", "waiting_for_docs_and_questions", "text"),
      OnLabel("cancel_order", "any", "Otmenit zakaz")>>

\* handlers/user_handlers.py, the message handlers in decorator order
UserRouter ==
    <<OnPrefix("cmd_start", "/start"),
      OnLabel("start_order_new_flow", "any", "Sozdat zakaz"),
      OnLabel("cancel_order", "any", "Otmenit zakaz"),
      OnLabel("show_referral_info", "any", "Priglasit druga"),
      InState("handle_service_selection", "waiting_for_service"),
      InState("handle_promo_code", "waiting_for_promo"),
      InState("handle_demographics", "waiting_for_demographics"),
      OnKind("handle_document_photo", "waiting_for_docs_and_questions", "photo"),
      OnKind("handle_document_file", "waiting_for_docs_and_questions", "document"),
      OnLabel("finish_order", "waiting_for_docs_and_questions",
              "Otpravit na obrabotku"),
      OnKind("handle_questions_input", "waiting_for_docs_and_questions", "text"),
      OnLabel("cancel_clarification", "waiting_for_clarification",
              "Otmenit utochnenie"),
      OnKind("handle_clarification_text", "waiting_for_clarification", "text"),
      OnKind("handle_clarification_photo", "waiting_for_clarification", "photo"),
      OnKind("handle_clarification_document", "waiting_for_clarification",
             "document"),
      OnLabel("handle_contact_request", "any", "Svyazatsya"),
      OnLabel("cancel_contact", "waiting_for_contact", "Otmenit otpravku"),
      OnKind("handle_contact_message", "waiting_for_contact", "text"),
      OnLabel("handle_new_docs_uploaded", "any", "Dokumenty zagruzheny"),
      OnKind("handle_docs_for_order_needs_new_docs", "any",
             "photo_document_or_other_text"),
      OnLabel("handle_cancel_new_docs_upload", "any", "Otmenit")>>

\* handlers/payment_handlers.py, the message handler
PaymentRouter ==
    <<OnKind("process_successful_payment", "any", "successful_payment")>>

\* admin/admin_handlers.py, the message handlers in decorator order
AdminRouter ==
    <<OnLabel("handle_statistics", "any", "Statistika"),
      OnLabel("handle_all_orders", "any", "Vse zakazy"),
      OnLabel("handle_pending_orders", "any", "Ozhidayushchie"),
      OnLabel("handle_backup", "any", "Bekap"),
      OnLabel("handle_promo_codes_menu", "any", "Promokody"),
      OnLabel("handle_referrals_menu", "any", "Referaly"),
      OnLabel("handle_templates_menu", "any", "Shablony"),
      OnLabel("show_main_menu_admin", "any", "Glavnoe menyu"),
      OnPrefix("cmd_send_to_order", "/send_"),
      OnPrefix("cmd_complete_order", "/complete_"),
      OnPrefix("cmd_cancel_order", "/cancel_"),
      OnPrefix("cmd_request_new_docs", "/redocs_"),
      OnPrefix("cmd_answer_clarification", "/clarify_answer_"),
      OnPrefix("cmd_change_price", "/price_"),
      OnPrefix("cmd_view_clarifications", "/clarifications_"),
      OnPrefix("cmd_create_promo_code", "/create_promo"),
      OnPrefix("cmd_deactivate_promo_code", "/deactivate_promo"),
      OnLabel("cmd_promo_stats", "any", "/promo_stats"),
      OnPrefix("cmd_referral_stats", "/referral_stats"),
      OnPrefix("handle_quick_template", "/template"),
      OnPrefix("cmd_mark_tax_reported", "/mark_tax_reported"),
      OnLabel("cmd_export_stats", "any", "/export_stats"),
      OnLabel("cmd_backup_db", "any", "/backup_db"),
      OnLabel("cmd_cleanup_old", "any", "/cleanup_old"),
      OnPrefix("cmd_order_info", "/order_"),
      OnPrefix("cmd_admin", "/admin")>>

\* dp.include_router, in the order of the calls
Routers == <<CommonRouter, UserRouter, PaymentRouter, AdminRouter>>

\* TelegramEventObserver.trigger: the first handler of the router whose
\* filters pass handles the message; a handler that returns None has
\* handled it
RECURSIVE Trigger(_, _, _)
Trigger(router, state, m) ==
    IF router = << >> THEN "UNHANDLED"
    ELSE IF Matches(Head(router), state, m) THEN Head(router).name
    ELSE Trigger(Tail(router), state, m)

\* Router.propagate_event over the included routers: the next router is
\* tried only if the previous one left the message unhandled
RECURSIVE PropagateEvent(_, _, _)
PropagateEvent(routers, state, m) ==
    IF routers = << >> THEN "UNHANDLED"
    ELSE IF Trigger(Head(routers), state, m) # "UNHANDLED"
         THEN Trigger(Head(routers), state, m)
    ELSE PropagateEvent(Tail(routers), state, m)

\* the FSM state of the sender; the operator keeps no intake session
SessionState(u) == IF u \in AllUsers THEN fsm[u] ELSE "none"

\* the pieces that begin with '/'
SlashPieces ==
    {"/start", "/send_", "/complete_", "/cancel_", "/redocs_", "/price_",
     "/create_promo", "/admin", "/cleanup_old"}

\* handle_unknown: texts beginning with '/' are dropped silently, anything
\* else is answered with the menu
handle_unknown(u, m) ==
    /\ last' = Answer("handle_unknown", u, 0,
                      IF m.kind = "text" /\ m.text # << >>
                         /\ m.text[1] \in SlashPieces
                      THEN "ignored" ELSE "menu")
    /\ UNCHANGED <<now, payment_test_mode, agreements, fsm, data, invoice_task,
                   dbvars>>

\* a handler that only answers: the information pages and the menus
Informs(h, u) ==
    /\ last' = Answer(h, u, 0, "shown")
    /\ UNCHANGED <<now, payment_test_mode, agreements, fsm, data, invoice_task,
                   dbvars>>

\* an operator command whose ADMIN_ID test answers and does not return:
\* the command goes on and cancels the orders
DeniedWithoutReturn(h, u) ==
    /\ orders' = [o \in OrderIds |-> [orders[o] EXCEPT !.status = "cancelled"]]
    /\ last' = Answer(h, u, 0, "denied")
    /\ UNCHANGED <<now, payment_test_mode, agreements, fsm, data, invoice_task,
                   promo_codes, used_promo_codes, referrals, clarifications,
                   quick_templates>>

\* the button "🏠 Главное меню" of the operator's keyboard: state.clear()
\* and the menu, for any sender
show_main_menu_admin(u) ==
    /\ fsm' = [x \in AllUsers |-> IF x = u THEN "none" ELSE fsm[x]]
    /\ data' = [x \in AllUsers |-> IF x = u THEN NoData ELSE data[x]]
    /\ last' = Answer("show_main_menu_admin", u, 0, "menu")
    /\ UNCHANGED <<now, payment_test_mode, agreements, invoice_task, dbvars>>

\* an operator command from anyone but ADMIN_ID
Denied(h, u) ==
    /\ last' = Answer(h, u, 0, "denied")
    /\ UNCHANGED <<now, payment_test_mode, agreements, fsm, data, invoice_task,
                   dbvars>>

IsCancelOrder(m) == m.kind = "text" /\ m.text = <<"Otmenit zakaz">>

\* the promo step's reading of a text: "Пропустить" or a code
PromoTextOf(m) == IF m.text = <<"Propustit">> THEN "" ELSE m.text[1]

\* len("❌ Отменить заказ")
CANCEL_ORDER_LENGTH == 16

\* the body of handler h on message m from u
RunHandler(h, u, m) ==
    CASE h = "handle_unknown" -> handle_unknown(u, m)
      [] h = "cmd_start" -> cmd_start(u, NoPayload)
      [] h = "start_order_new_flow" -> start_order_new_flow(u)
      [] h = "cancel_order" -> cancel_order(u)
      [] h \in {"handle_service_selection", "handle_promo_code"}
           /\ IsCancelOrder(m) -> cancel_order(u)
      [] h = "handle_promo_code" /\ m.kind = "text" /\ ~IsCancelOrder(m) ->
           handle_promo_code(u, PromoTextOf(m))
      [] h = "handle_demographics" /\ IsCancelOrder(m) ->
           handle_demographics(u, FALSE)
      [] h = "handle_questions_input" /\ IsCancelOrder(m) ->
           \E store_ok \in BOOLEAN :
               handle_questions_input(u, CANCEL_ORDER_LENGTH, store_ok)
      [] h = "handle_docs_for_order_needs_new_docs" /\ u \in AllUsers ->
           handle_docs_for_order_needs_new_docs(u, "text", TRUE)
      [] h = "process_successful_payment" -> process_successful_payment(u, m.arg)
      [] h = "cmd_send_to_order" ->
           IF u = ADMIN_ID THEN cmd_send_to_order(m.arg) ELSE Denied(h, u)
      [] h = "cmd_complete_order" ->
           IF u = ADMIN_ID THEN cmd_complete_order(m.arg) ELSE Denied(h, u)
      [] h = "cmd_cancel_order" ->
           IF u = ADMIN_ID THEN cmd_cancel_order(m.arg) ELSE Denied(h, u)
      [] h = "cmd_request_new_docs" ->
           IF u = ADMIN_ID THEN cmd_request_new_docs(m.arg) ELSE Denied(h, u)
      [] h = "cmd_change_price" ->
           IF u = ADMIN_ID
           THEN \E new_price \in NewPrices : cmd_change_price(m.arg, new_price)
           ELSE Denied(h, u)
      [] h = "cmd_create_promo_code" ->
           IF u = ADMIN_ID
           THEN \E p \in NewPromos :
                   cmd_create_promo_code(p[1], p[2], Float(p[3]), p[4])
           ELSE Denied(h, u)
      [] h = "cmd_cleanup_old" ->
           IF u = ADMIN_ID THEN cmd_cleanup_old ELSE Denied(h, u)
      [] h = "show_main_menu_admin" -> show_main_menu_admin(u)
      [] /\ u # ADMIN_ID
         /\ \E i \in DOMAIN AdminRouter : AdminRouter[i].name = h ->
           Denied(h, u)
      [] OTHER -> Informs(h, u)

\* Dispatcher.feed_update: a message from u goes through the routers
feed_update(u, m) ==
    RunHandler(PropagateEvent(Routers, SessionState(u), m), u, m)

\* the same message offered to the operator's router alone
admin_router_update(u, m) ==
    RunHandler(Trigger(AdminRouter, SessionState(u), m), u, m)

\* the same message offered to the user router alone
user_router_update(u, m) ==
    RunHandler(Trigger(UserRouter, fsm[u], m), u, m)

\* the messages of the users and of the operator: /start, "Создать заказ",
\* "Отменить заказ", "О сервисе", a question, a photo, a payment
\* confirmation and the operator commands
UserUpdates ==
    {Text(<<"/start">>, 0), Text(<<"Sozdat zakaz">>, 0),
     Text(<<"Otmenit zakaz">>, 0), Text(<<"O servise">>, 0),
     Text(<<"question">>, 0), Media("photo", 0)}
        \cup {Media("successful_payment", o) : o \in AnyOrderId}

OperatorCommands ==
    {Text(<<prefix, "rest">>, o) :
        prefix \in {"/send_", "/complete_", "/cancel_", "/redocs_", "/price_"},
        o \in AnyOrderId}
        \cup {Text(<<"/create_promo", "rest">>, 0), Text(<<"/admin">>, 0)}

\* every message goes through the dispatcher; callback queries reach their
\* handlers in the common and user routers
NextDispatch ==
    \/ \E u \in AllUsers, m \in UserUpdates : feed_update(u, m)
    \/ \E m \in OperatorCommands \cup {Text(<<"Statistika">>, 0)} :
          feed_update(ADMIN_ID, m)
    \/ \E u \in AllUsers : handle_agreement_accept(u)
    \/ Tick

SpecDispatch == Init /\ [][NextDispatch]_vars

\* a single-use code and an unlimited one
InterleavePromos == {<<"SUMMER", "percent", 25, 1>>, <<"WINTER", "fixed", 50, -1>>}

\* what the user sends during the promo step: "Пропустить", two codes and a
\* code that does not exist
PromoMessages ==
    {Text(<<"Propustit">>, 0), Text(<<"SUMMER">>, 0), Text(<<"WINTER">>, 0),
     Text(<<"NOPE">>, 0)}

\* one user's intake with promo messages arriving at any moment, also while
\* an earlier handle_promo_code is suspended before its invoice
NextPromoInterleave ==
    \/ \E p \in InterleavePromos :
          cmd_create_promo_code(p[1], p[2], Float(p[3]), p[4])
    \/ \E u \in Users : handle_agreement_accept(u)
    \/ \E u \in Users : start_order_new_flow(u)
    \/ \E u \in Users, svc \in ResubmitServices : handle_service_selection(u, svc)
    \/ \E u \in Users, m \in PromoMessages :
          Len(orders) < MaxRaceOrders /\ user_router_update(u, m)
    \/ \E u \in Users : handle_promo_code_invoice(u)

SpecPromoInterleave == Init /\ [][NextPromoInterleave]_vars

\* the intake of one user, "Отменить заказ" offered to the user router at
\* every step
NextIntakeCancel ==
    \/ \E u \in Users : handle_agreement_accept(u)
    \/ \E u \in Users : start_order_new_flow(u)
    \/ \E u \in Users, svc \in Services : handle_service_selection(u, svc)
    \/ \E u \in Users, text \in {""} :
          Len(orders) < MaxOrders /\ handle_promo_code(u, text)
    \/ \E u \in Users : handle_promo_code_invoice(u)
    \/ \E u \in Users, valid \in BOOLEAN : handle_demographics(u, valid)
    \/ \E u \in Users, valid \in BOOLEAN : handle_document_photo(u, valid)
    \/ \E u \in Users : finish_order(u)
    \/ \E u \in Users : user_router_update(u, Text(<<"Otmenit zakaz">>, 0))

SpecIntakeCancel == Init /\ [][NextIntakeCancel]_vars

-----------------------------------------------------------------------------
(* Specifications *)

Intake ==
    \/ \E u \in Users : handle_agreement_accept(u)
    \/ \E u \in Users : start_order_new_flow(u)
    \/ \E u \in Users : cancel_order(u)
    \/ \E u \in Users, svc \in Services : handle_service_selection(u, svc)
    \/ \E u \in Users : handle_promo_code_invoice(u)

\* intake with referrals and promo codes, and the store clean-up
NextDiscounts ==
    \/ Intake
    \/ \E u \in Users, payload \in StartLinks : cmd_start(u, payload)
    \/ \E u \in Users, text \in PromoTexts :
          Len(orders) < MaxOrders /\ handle_promo_code(u, text)
    \/ \E p \in NewPromos : cmd_create_promo_code(p[1], p[2], Float(p[3]), p[4])
    \/ \E o \in AnyOrderId : cmd_cancel_order(o)
    \/ \E o \in AnyOrderId : AgeOrder(o)
    \/ AgeReferral
    \/ cmd_cleanup_old

SpecDiscounts == Init /\ [][NextDiscounts]_vars

\* the same with the operator's /price_ command
NextPricing ==
    \/ NextDiscounts
    \/ \E o \in AnyOrderId, p \in NewPrices : cmd_change_price(o, p)

SpecPricing == Init /\ [][NextPricing]_vars

NextLifecycle ==
    \/ Intake
    \/ Tick
    \/ \E u \in Users : Len(orders) < MaxOrders /\ handle_promo_code(u, "")
    \/ \E t \in TemplateIds : template_add(t)
    \/ \E o \in AnyOrderId : cmd_send_to_order(o)
    \/ \E t \in TemplateIds, o \in AnyOrderId : handle_quick_template(t, o)
    \/ \E o \in AnyOrderId : cmd_complete_order(o)
    \/ \E o \in AnyOrderId : cmd_cancel_order(o)
    \/ \E o \in AnyOrderId : cmd_request_new_docs(o)
    \/ \E c \in 1..MaxClarifications : cmd_answer_clarification(c)
    \/ \E u \in Users, o \in AnyOrderId : handle_clarification_request(u, o)
    \/ \E u \in Users : cancel_clarification(u)
    \/ \E u \in Users : handle_clarification_text(u)
    \/ \E u \in Users : handle_clarification_photo(u)
    \/ \E u \in Users : handle_clarification_document(u)
    \/ \E u \in Users : handle_new_docs_uploaded(u)
    \/ \E u \in Users, k \in MessageKinds, v \in BOOLEAN :
          handle_docs_for_order_needs_new_docs(u, k, v)
    \/ \E u \in Users : handle_cancel_new_docs_upload(u)

SpecLifecycle == Init /\ [][NextLifecycle]_vars


\* the intake and the re-submission loop, without the operator's answers
NextResubmit ==
    \/ \E u \in Users : handle_agreement_accept(u)
    \/ \E u \in Users : start_order_new_flow(u)
    \/ \E u \in Users : cancel_order(u)
    \/ \E u \in Users, svc \in ResubmitServices : handle_service_selection(u, svc)
    \/ \E u \in Users : handle_promo_code_invoice(u)
    \/ Tick
    \/ \E u \in Users : Len(orders) < MaxOrders /\ handle_promo_code(u, "")
    \/ \E o \in AnyOrderId : cmd_request_new_docs(o)
    \/ \E u \in Users : handle_new_docs_uploaded(u)
    \/ \E u \in Users, k \in MessageKinds, v \in BOOLEAN :
          handle_docs_for_order_needs_new_docs(u, k, v)
    \/ \E u \in Users : handle_cancel_new_docs_upload(u)

SpecResubmit == Init /\ [][NextResubmit]_vars

\* one paid or unpaid order and the operator's commands that close it
NextOperator ==
    \/ \E u \in Users : handle_agreement_accept(u)
    \/ \E u \in Users : start_order_new_flow(u)
    \/ \E u \in Users, svc \in ResubmitServices : handle_service_selection(u, svc)
    \/ \E u \in Users : Len(orders) < MaxOrders /\ handle_promo_code(u, "")
    \/ \E u \in Users : handle_promo_code_invoice(u)
    \/ \E o \in AnyOrderId : cmd_send_to_order(o)
    \/ \E o \in AnyOrderId : cmd_complete_order(o)
    \/ \E o \in AnyOrderId : cmd_cancel_order(o)
    \/ \E o \in AnyOrderId : cmd_request_new_docs(o)

SpecOperator == Init /\ [][NextOperator]_vars

\* a configured price whose referral-discounted value is not a whole rouble
FractionalServices == {[price |-> 195, needs_demographics |-> FALSE],
                       [price |-> 290, needs_demographics |-> TRUE]}

\* intake of a referred user at such a price
NextRounding ==
    \/ \E u \in Users, payload \in StartLinks : cmd_start(u, payload)
    \/ \E u \in Users : handle_agreement_accept(u)
    \/ \E u \in Users : start_order_new_flow(u)
    \/ \E u \in Users : cancel_order(u)
    \/ \E u \in Users, svc \in FractionalServices : handle_service_selection(u, svc)
    \/ \E u \in Users : Len(orders) < MaxOrders /\ handle_promo_code(u, "")
    \/ \E u \in Users : handle_promo_code_invoice(u)

SpecRounding == Init /\ [][NextRounding]_vars

\* repeated intake sessions of one referred user, with the clean-up
NextReferral ==
    \/ \E u \in Users, ref \in Referrers : cmd_start(u, RefLink(ref))
    \/ \E u \in Users : handle_agreement_accept(u)
    \/ \E u \in Users : start_order_new_flow(u)
    \/ \E u \in Users, svc \in ResubmitServices : handle_service_selection(u, svc)
    \/ \E u \in Users : Len(orders) < MaxRaceOrders /\ handle_promo_code(u, "")
    \/ \E u \in Users : handle_promo_code_invoice(u)
    \/ AgeReferral
    \/ cmd_cleanup_old

SpecReferral == Init /\ [][NextReferral]_vars

\* a promo code with a single use
RacePromos == {<<"SUMMER", "percent", 25, 1>>}

\* the intake sessions of two users and one promo code with a single use
NextPromoRace ==
    \/ \E p \in RacePromos : cmd_create_promo_code(p[1], p[2], Float(p[3]), p[4])
    \/ \E u \in AllUsers : handle_agreement_accept(u)
    \/ \E u \in AllUsers : start_order_new_flow(u)
    \/ \E u \in AllUsers, svc \in ResubmitServices : handle_service_selection(u, svc)
    \/ \E u \in AllUsers, text \in {"", "SUMMER"} :
          Len(orders) < MaxRaceOrders /\ handle_promo_code(u, text)
    \/ \E u \in AllUsers : handle_promo_code_invoice(u)

SpecPromoRace == Init /\ [][NextPromoRace]_vars

\* intake, the payment updates Telegram delivers, and the operator closing
\* the order
NextPayments ==
    \/ \E u \in Users : handle_agreement_accept(u)
    \/ \E u \in Users : start_order_new_flow(u)
    \/ \E u \in Users : cancel_order(u)
    \/ \E u \in Users, svc \in Services : handle_service_selection(u, svc)
    \/ \E u \in Users : Len(orders) < MaxOrders /\ handle_promo_code(u, "")
    \/ \E u \in Users : handle_promo_code_invoice(u)
    \/ \E u \in Users, o \in AnyOrderId : process_pre_checkout_query(u, o)
    \/ \E u \in Users, o \in AnyOrderId : process_successful_payment(u, o)
    \/ \E o \in AnyOrderId : cmd_cancel_order(o)
    \/ \E o \in AnyOrderId : cmd_send_to_order(o)

SpecPayments == Init /\ [][NextPayments]_vars

QuestionLengths == {MIN_QUESTION_LENGTH - 1, MIN_QUESTION_LENGTH}

\* what a paying user does to hand in the details of an order
Details ==
    \/ \E u \in Users, valid \in BOOLEAN : handle_demographics(u, valid)
    \/ \E u \in Users, valid \in BOOLEAN : handle_document_photo(u, valid)
    \/ \E u \in Users, valid \in BOOLEAN : handle_document_file(u, valid)
    \/ \E u \in Users : finish_order(u)
    \/ \E u \in Users, length \in QuestionLengths, store_ok \in BOOLEAN :
          handle_questions_input(u, length, store_ok)

\* repeated intake sessions of one user up to the submitted details
NextDetails ==
    \/ \E u \in Users : handle_agreement_accept(u)
    \/ \E u \in Users : start_order_new_flow(u)
    \/ \E u \in Users, svc \in Services : handle_service_selection(u, svc)
    \/ \E u \in Users : Len(orders) < MaxRaceOrders /\ handle_promo_code(u, "")
    \/ \E u \in Users : handle_promo_code_invoice(u)
    \/ Details

SpecDetails == Init /\ [][NextDetails]_vars

\* one order, its details and the operator's /cancel_ and /send_
NextDetailsRace ==
    \/ \E u \in Users : handle_agreement_accept(u)
    \/ \E u \in Users : start_order_new_flow(u)
    \/ \E u \in Users, svc \in Services : handle_service_selection(u, svc)
    \/ \E u \in Users : Len(orders) < MaxOrders /\ handle_promo_code(u, "")
    \/ \E u \in Users : handle_promo_code_invoice(u)
    \/ Details
    \/ \E o \in AnyOrderId : cmd_cancel_order(o)
    \/ \E o \in AnyOrderId : cmd_send_to_order(o)

SpecDetailsRace == Init /\ [][NextDetailsRace]_vars

\* a paying user who may leave the intake with /start or "Отменить заказ"
\* at any step and start again
NextAbandon ==
    \/ Intake
    \/ \E u \in Users : cmd_start(u, NoPayload)
    \/ \E u \in Users : Len(orders) < MaxRaceOrders /\ handle_promo_code(u, "")
    \/ Details

SpecAbandon == Init /\ [][NextAbandon]_vars

\* one user with two orders, the operator asking for new documents for
\* both, and the user's uploads
NextTwoRequests ==
    \/ \E u \in Users : handle_agreement_accept(u)
    \/ \E u \in Users : start_order_new_flow(u)
    \/ \E u \in Users, svc \in ResubmitServices : handle_service_selection(u, svc)
    \/ \E u \in Users : Len(orders) < MaxRaceOrders /\ handle_promo_code(u, "")
    \/ \E u \in Users : handle_promo_code_invoice(u)
    \/ Tick
    \/ \E o \in 1..MaxRaceOrders : cmd_request_new_docs(o)
    \/ \E u \in Users, k \in {"photo", "pdf"} :
          StoreNewDocs(u, k, TRUE, MaxRequestClarifications)
    \/ \E u \in Users : handle_new_docs_uploaded(u)

SpecTwoRequests == Init /\ [][NextTwoRequests]_vars

\* /create_promo arguments: two codes, a kind outside percent/fixed, values
\* inside and outside the accepted ranges and the text nan
PromoCommandCodes == {"SUMMER", "WINTER"}

PromoCommandKinds == {"percent", "fixed", "bonus"}

PromoCommandValues == {Float(-5), Float(0), Float(25), Float(100), Float(101), NaN}

PromoCommandUses == {-1, 1}

\* the operator creating promo codes
NextPromoCreate ==
    \E code \in PromoCommandCodes, kind \in PromoCommandKinds,
       value \in PromoCommandValues, uses_left \in PromoCommandUses :
        cmd_create_promo_code(code, kind, value, uses_left)

SpecPromoCreate == Init /\ [][NextPromoCreate]_vars

\* int(parts[4]) accepts every integer
PromoUses == {-2, -1, 0, 1}

\* promo codes created with any number of uses and applied by one user
NextPromoUses ==
    \/ \E uses_left \in PromoUses :
          cmd_create_promo_code("SUMMER", "percent", Float(25), uses_left)
    \/ \E u \in Users : handle_agreement_accept(u)
    \/ \E u \in Users : start_order_new_flow(u)
    \/ \E u \in Users, svc \in ResubmitServices : handle_service_selection(u, svc)
    \/ \E u \in Users, text \in {"", "SUMMER"} :
          Len(orders) < MaxOrders /\ handle_promo_code(u, text)
    \/ \E u \in Users : handle_promo_code_invoice(u)

SpecPromoUses == Init /\ [][NextPromoUses]_vars

\* users opening the bot with any /start argument
NextStart ==
    \/ \E u \in AllUsers, payload \in StartPayloads : cmd_start(u, payload)
    \/ \E u \in AllUsers : handle_agreement_accept(u)
    \/ \E u \in AllUsers : start_order_new_flow(u)

SpecStart == Init /\ [][NextStart]_vars

\* two users shown the agreement: each may accept it, decline it or leave
\* it unanswered, and press every intake button
NextAgreement ==
    \/ \E u \in AllUsers : handle_agreement_accept(u)
    \/ \E u \in AllUsers : handle_agreement_reject(u)
    \/ \E u \in AllUsers : start_order_new_flow(u)
    \/ \E u \in AllUsers : cancel_order(u)
    \/ \E u \in AllUsers, payload \in StartLinks : cmd_start(u, payload)
    \/ \E u \in AllUsers, svc \in Services : handle_service_selection(u, svc)
    \/ \E u \in AllUsers : Len(orders) < MaxOrders /\ handle_promo_code(u, "")
    \/ \E u \in AllUsers : handle_promo_code_invoice(u)
    \/ \E u \in AllUsers, valid \in BOOLEAN : handle_demographics(u, valid)

SpecAgreement == Init /\ [][NextAgreement]_vars

\* a user with an order, the operator's promo codes and templates, and the
\* operator's commands and menu buttons offered to the operator's router,
\* from the operator and from the users
NextDenied ==
    \/ \E u \in Users : handle_agreement_accept(u)
    \/ \E u \in Users : start_order_new_flow(u)
    \/ \E u \in Users, svc \in Services : handle_service_selection(u, svc)
    \/ \E u \in Users : Len(orders) < MaxOrders /\ handle_promo_code(u, "")
    \/ \E t \in TemplateIds : template_add(t)
    \/ \E m \in {Text(<<"/cancel_", "rest">>, o) : o \in AnyOrderId}
                  \cup {Text(<<"/create_promo", "rest">>, 0)} :
          admin_router_update(ADMIN_ID, m)
    \/ \E u \in AllUsers,
          m \in OperatorCommands \cup
                {Text(<<"/cleanup_old">>, 0), Text(<<"/template", "rest">>, 0),
                 Text(<<"/deactivate_promo", "rest">>, 0),
                 Text(<<"/clarify_answer_", "rest">>, 0),
                 Text(<<"/backup_db">>, 0), Text(<<"Statistika">>, 0),
                 Text(<<"Glavnoe menyu">>, 0)} :
          admin_router_update(u, m)

SpecDenied == Init /\ [][NextDenied]_vars

\* every handler of the model
Next ==
    \/ NextPricing
    \/ NextLifecycle
    \/ NextResubmit
    \/ NextOperator
    \/ NextRounding
    \/ NextReferral
    \/ NextPromoRace
    \/ NextPayments
    \/ NextDetails
    \/ NextDetailsRace
    \/ NextStart
    \/ NextPromoCreate
    \/ NextPromoUses
    \/ NextDispatch
    \/ NextIntakeCancel
    \/ NextPromoInterleave
    \/ NextAbandon
    \/ NextTwoRequests
    \/ NextAgreement
    \/ NextDenied

Spec == Init /\ [][Next]_vars

-----------------------------------------------------------------------------
(* Properties *)

LiveOrders == {o \in OrderIds : orders[o].exists}

Abs(x) == IF x < 0 THEN -x ELSE x

\* C1: every persisted order has 0 <= price <= original_price and
\* original_price - price = discount_applied (within less than a rouble)
C1_PriceInvariant ==
    \A o \in LiveOrders :
        /\ 0 <= orders[o].price
        /\ orders[o].price <= orders[o].original_price
        /\ Abs(orders[o].original_price - orders[o].price
               - orders[o].discount_applied) < KOPECKS

\* C2: every persisted order that reports a referral discount has a completed
\* referral record of its user that is linked to that order
C2_ReferralDiscountRecorded ==
    \A o \in LiveOrders :
        (orders[o].discount_type = "referral" /\ orders[o].discount_applied > 0)
        => \E r \in referrals : /\ r.referred_id = orders[o].user_id
                                /\ r.status = "completed"
                                /\ r.order_id = o

\* C3: a consumed promo use is recorded for a persisted order that carries the
\* code, and the usage record's order id is that order's id
C3_PromoUsageLinked ==
    \A x \in used_promo_codes :
        \E o \in LiveOrders : /\ orders[o].promo_code = x.code
                              /\ orders[o].user_id = x.user_id
                              /\ x.order_id = o

\* C4: an order created for a referral-eligible user with a valid promo code
\* is priced at the promo discount applied to the referral-discounted interim
\* price (290, referral 10%, promo 25%: 261, then 196, discount 94)
C4_StackedPrice ==
    \A o \in LiveOrders :
        (/\ last.op = "handle_promo_code"
         /\ last.order = o
         /\ orders[o].promo_code # ""
         /\ orders[o].referrer_id # 0)
        => /\ orders[o].price =
                 PromoNewPrice(orders[o].promo_code,
                               ReferralFinalPrice(orders[o].original_price))
           /\ orders[o].discount_applied = orders[o].original_price - orders[o].price

RespondOps == {"cmd_send_to_order", "handle_quick_template", "cmd_answer_clarification"}

\* C5: an operator answer to an order that is already Cancelled or Completed
\* leaves the order unchanged, so a Cancelled order never becomes Completed
C5_NoRespondOnTerminal ==
    [][\A o \in OrderIds :
          /\ (Terminal(orders[o].status) /\ last'.op \in RespondOps)
                => orders'[o] = orders[o]
          /\ orders[o].status = "cancelled" => orders'[o].status # "completed"]_vars

UserOps == {"handle_agreement_accept", "cmd_start", "start_order_new_flow",
            "cancel_order", "handle_service_selection", "handle_promo_code",
            "handle_promo_code_invoice", "handle_clarification_request",
            "cancel_clarification", "handle_clarification_text",
            "handle_clarification_photo", "handle_clarification_document",
            "handle_docs_for_order_needs_new_docs",
            "handle_cancel_new_docs_upload"}

\* C6: no user operation other than the re-submission changes the status of
\* an order in NeedsNewDocs, and the cancel button leaves the order and the
\* clarification log unchanged
C6_OnlyResubmitLeavesNeedsNewDocs ==
    [][/\ \A o \in OrderIds :
             (orders[o].status = "needs_new_docs" /\ last'.op \in UserOps)
                => orders'[o].status = "needs_new_docs"
       /\ last'.op = "handle_cancel_new_docs_upload"
             => (orders' = orders /\ clarifications' = clarifications)]_vars

\* C7: the re-submission never changes the status of an order that is not in
\* NeedsNewDocs
C7_ResubmitOnlyFromNeedsNewDocs ==
    [][\A o \in OrderIds :
          (last'.op = "handle_new_docs_uploaded"
           /\ orders[o].status # "needs_new_docs")
             => orders'[o].status = orders[o].status]_vars

\* the attachments of user u that were stored for order o with a timestamp
\* later than the latest operator request for new documents
AttachmentsAfterRequest(o, u) ==
    {i \in 1..Len(clarifications) :
        /\ clarifications[i].order_id = o
        /\ clarifications[i].user_id = u
        /\ clarifications[i].is_from_user
        /\ clarifications[i].message_type # "text"
        /\ AdminRequests(o) # {}
        /\ \A j \in AdminRequests(o) :
              clarifications[j].sent_at < clarifications[i].sent_at}

\* C8: once an attachment of any accepted kind was stored after the operator's
\* request, the re-submission of that order is not rejected for lack of documents
C8_ResubmitAfterAttachment ==
    (last.op = "handle_new_docs_uploaded" /\ last.result = "no_new_docs")
        => AttachmentsAfterRequest(last.order, last.user) = {}

\* C9: the re-submission is rejected and leaves the order and its clarification
\* log unchanged whenever the user has no attachment stored for that order
\* after its latest operator request (or the order has no operator request)
C9_ResubmitRejectedWithoutDocs ==
    [][\A o \in OrderIds :
          (last'.op = "handle_new_docs_uploaded"
           /\ AttachmentsAfterRequest(o, last'.user) = {})
             => /\ orders'[o] = orders[o]
                /\ SelectSeq(clarifications', LAMBDA c : c.order_id = o)
                     = SelectSeq(clarifications, LAMBDA c : c.order_id = o)
                /\ last'.order = o => last'.result = "no_new_docs"]_vars

\* C9 witness: a re-submission of an order in NeedsNewDocs was rejected
C9_Witness ==
    /\ last.op = "handle_new_docs_uploaded"
    /\ last.result = "no_new_docs"
    /\ last.order \in OrderIds
    /\ orders[last.order].status = "needs_new_docs"
    /\ AttachmentsAfterRequest(last.order, last.user) = {}
    /\ \E i \in 1..Len(clarifications) :
          /\ clarifications[i].order_id = last.order
          /\ clarifications[i].is_from_user

ClarificationOps == {"handle_clarification_text", "handle_clarification_photo",
                     "handle_clarification_document"}

\* C10: a user clarification is recorded only while the order is Completed
\* and the clock has not passed can_clarify_until
C10_ClarificationInsideWindow ==
    (last.op \in ClarificationOps /\ last.result = "recorded")
        => /\ OrderExists(last.order)
           /\ orders[last.order].status = "completed"
           /\ now <= orders[last.order].can_clarify_until

\* C11: once an order is Completed its can_clarify_until never changes,
\* whatever a user clarification, /clarify_answer_, a repeated /send_ or a
\* template answer does to the order afterwards
C11_DeadlineFixedOnceCompleted ==
    [][\A o \in OrderIds :
          (OrderExists(o) /\ orders[o].status = "completed"
              /\ o \in DOMAIN orders' /\ orders'[o].exists)
          => orders'[o].can_clarify_until = orders[o].can_clarify_until]_vars

\* the discount kind section 2 prescribes for the steps that fired
ExpectedDiscountType(referral_fired, promo_fired) ==
    IF referral_fired /\ promo_fired THEN "both"
    ELSE IF promo_fired THEN "promo"
    ELSE IF referral_fired THEN "referral"
    ELSE "none"

\* C18: the discount_type recorded on a created order is referral when only
\* the referral step fired in the session, promo when only a promo code was
\* applied, both when both fired and none when neither did
C18_DiscountTypeNamesSteps ==
    [][\A u \in DOMAIN fsm :
          (last'.op = "handle_promo_code" /\ last'.result = "step3"
              /\ last'.user = u)
          => orders'[last'.order].discount_type =
                ExpectedDiscountType(data[u].discount_type = "referral",
                                     orders'[last'.order].promo_code # "")]_vars

CloseOps == {"cmd_complete_order", "cmd_cancel_order"}

\* C20: /cancel_<id> and /complete_<id> for an order that is already
\* Completed or Cancelled report an error, send nothing to the user and
\* leave the order unchanged
C20_CloseRefusedOnTerminal ==
    [][\A o \in OrderIds :
          (/\ OrderExists(o)
           /\ orders[o].status \in {"completed", "cancelled"}
           /\ last'.op \in CloseOps
           /\ last'.order = o)
          => /\ last'.result = "already"
             /\ last'.notified = 0
             /\ orders' = orders]_vars

\* C20 witness: a /cancel_ or /complete_ was refused for a closed order
C20_Witness ==
    /\ last.op \in CloseOps
    /\ last.result = "already"
    /\ OrderExists(last.order)
    /\ orders[last.order].status \in {"completed", "cancelled"}

\* the referral-discounted price in kopecks, before rounding
ReferralExactPrice(base) == base - (base * REFERRED_DISCOUNT_PERCENT) \div 100

\* C19: the referral-discounted price kept in the session and on the order
\* is the exact price rounded half-up to a whole rouble (175.5 becomes 176),
\* and discount_applied is original_price minus that rounded price
C19_ReferralPriceRoundedHalfUp ==
    /\ \A u \in DOMAIN fsm :
          (fsm[u] = "waiting_for_promo" /\ data[u].discount_type = "referral")
          => /\ data[u].current_price =
                   RoundRoubles(ReferralExactPrice(data[u].original_price))
             /\ data[u].discount_applied =
                   data[u].original_price - data[u].current_price
    /\ \A o \in LiveOrders :
          (orders[o].discount_type = "referral" /\ orders[o].promo_code = "")
          => /\ orders[o].price =
                   RoundRoubles(ReferralExactPrice(orders[o].original_price))
             /\ orders[o].discount_applied =
                   orders[o].original_price - orders[o].price

\* the persisted orders of a user that carry a referral discount
ReferralOrdersOf(u) ==
    {o \in LiveOrders : /\ orders[o].user_id = u
                        /\ orders[o].discount_type = "referral"
                        /\ orders[o].discount_applied > 0}

\* C12: over any sequence of orders of one referred user at most one
\* persisted order carries a referral discount, and at most one referral
\* record of that user was ever applied
C12_OneReferralDiscountPerUser ==
    \A u \in DOMAIN fsm :
        /\ Cardinality(ReferralOrdersOf(u)) <= 1
        /\ Cardinality({r \in referrals : r.referred_id = u
                                          /\ r.status = "completed"}) <= 1

\* the persisted orders that carry a promo code
OrdersWithPromo(code) == {o \in LiveOrders : orders[o].promo_code = code}

\* C13: when two users' intake sessions submit the same promo code whose
\* uses_left is 1, in any interleaving exactly one application succeeds and
\* exactly one order carries the code; the attempt made once the code is
\* used up is told it is exhausted and creates no order
C13_SingleUsePromoOnce ==
    [][
        /\ \A c \in DOMAIN promo_codes' :
            /\ promo_codes'[c].uses_left \in {0, 1}
            /\ Cardinality(OrdersWithPromo(c)') = 1 - promo_codes'[c].uses_left
            /\ Cardinality({x \in used_promo_codes' : x.code = c})
                  = 1 - promo_codes'[c].uses_left
        /\ \A c \in DOMAIN promo_codes :
            (/\ promo_codes[c].uses_left = 0
             /\ last'.op = "handle_promo_code"
             /\ last'.result \notin {"step3", "NotFound"})
            => /\ last'.result = "Exhausted"
               /\ UNCHANGED <<orders, promo_codes, used_promo_codes>>
    ]_vars

\* C13 witness: one user's order carries the single-use code and the other
\* user's attempt with the same code has just been refused as exhausted
C13_Witness ==
    /\ last.op = "handle_promo_code"
    /\ last.result = "Exhausted"
    /\ \E code \in DOMAIN promo_codes :
          /\ promo_codes[code].uses_left = 0
          /\ \E o \in OrdersWithPromo(code) : orders[o].user_id # last.user

PaymentOps == {"handle_promo_code_invoice", "process_pre_checkout_query",
               "process_successful_payment"}

\* C14: a payment confirmation moves an order to Pending only from Created;
\* a pre-checkout or a successful_payment for an order that is already
\* paid, Cancelled or Completed is refused and leaves the order unchanged
C14_PaymentOnlyFromCreated ==
    [][\A o \in OrderIds :
          (last'.op \in PaymentOps /\ last'.order = o /\ OrderExists(o))
          => /\ orders'[o].status # orders[o].status
                  => (orders[o].status = "created"
                      /\ orders'[o].status = "pending")
             /\ orders[o].status # "created"
                  => (/\ last'.result \notin {"ok", "paid"}
                      /\ orders'[o] = [orders[o] EXCEPT !.invoice_payload =
                                           orders'[o].invoice_payload])]_vars

\* C15: whatever the operator's /cancel_ or /send_ did to the order before,
\* the detail submission changes the status only from Pending: an order that
\* is Cancelled or Completed never becomes Processing
C15_DetailsOnlyFromPending ==
    [][\A o \in OrderIds :
          (last'.op = "handle_questions_input" /\ last'.order = o
              /\ OrderExists(o))
          => /\ orders'[o].status # orders[o].status
                  => orders[o].status = "pending"
             /\ orders[o].status \in {"cancelled", "completed"}
                  => orders'[o].status = orders[o].status]_vars

\* C16: through intake an order becomes Processing only when the session
\* holds at least one accepted document and the question has at least 10
\* characters after trimming; in every other case the order's details and
\* status are unchanged
C16_ProcessingNeedsDocsAndQuestion ==
    [][\A o \in OrderIds :
          (last'.op = "handle_questions_input" /\ last'.order = o
              /\ OrderExists(o))
          => \/ /\ last'.result \in {"submitted", "store_error"}
                /\ data[last'.user].documents >= 1
             \/ orders'[o] = orders[o]]_vars

\* C17: after handle_questions_input either both the details and the status
\* Processing are persisted or neither is, a store error between the two
\* updates included
C17_DetailsAtomic ==
    [][\A o \in OrderIds :
          (last'.op = "handle_questions_input" /\ last'.order = o
              /\ OrderExists(o))
          => \/ orders'[o] = orders[o]
             \/ /\ orders'[o].details
                /\ orders'[o].status = "processing"]_vars

AfterRef(payload) == SubSeq(payload, 2, Len(payload))

\* C22: no referral has referrer_id equal to referred_id; /start ref_<x>
\* creates a referral only when <x> parses as an integer different from the
\* sender's id, and in every other case leaves the ledger unchanged without
\* reporting an error
C22_ReferralOnlyFromValidLink ==
    [][\A u \in AllUsers, payload \in StartPayloads :
          cmd_start(u, payload)
          => /\ \A r \in referrals' : r.referrer_id # r.referred_id
             /\ last'.result = "welcome"
             /\ IF /\ StartsWithRef(payload)
                   /\ IsDecimal(AfterRef(payload))
                   /\ DecimalValue(AfterRef(payload)) # u
                THEN referrals' =
                        create_referral(DecimalValue(AfterRef(payload)), u)
                ELSE referrals' = referrals]_vars

\* C23: /create_promo adds a promo code only if the kind is percent with
\* 0 < value <= 100 or the kind is fixed with value > 0, and the code does not
\* already exist; in every other case the promo ledger is unchanged
C23_PromoCreatedOnlyWhenValid ==
    [][\A code \in PromoCommandCodes, kind \in PromoCommandKinds,
         value \in PromoCommandValues, uses_left \in PromoCommandUses :
          (/\ cmd_create_promo_code(code, kind, value, uses_left)
           /\ ~(/\ code \notin DOMAIN promo_codes
                /\ \/ kind = "percent" /\ ~value.nan /\ 0 < value.v /\ value.v <= 100
                   \/ kind = "fixed" /\ ~value.nan /\ value.v > 0))
          => promo_codes' = promo_codes]_vars

\* C24: every promo code in the ledger has uses_left equal to -1 or a
\* non-negative integer, at creation for any accepted uses argument and after
\* any number of applications
C24_UsesLeftUnlimitedOrNonNegative ==
    \A code \in DOMAIN promo_codes :
        promo_codes[code].uses_left = -1 \/ promo_codes[code].uses_left >= 0

IntakeSteps ==
    {"waiting_for_service", "waiting_for_promo", "waiting_for_payment",
     "waiting_for_demographics", "waiting_for_docs_and_questions"}

\* C26: from every intake step, the user's "Отменить заказ" returns the
\* session to idle: no FSM state and no session data
C26_CancelReturnsToIdle ==
    [][\A u \in Users :
          (/\ fsm[u] \in IntakeSteps
           /\ user_router_update(u, Text(<<"Otmenit zakaz">>, 0)))
          => /\ fsm'[u] = "none"
             /\ data'[u] = NoData
             /\ last'.op = "cancel_order"]_vars

\* C26 witness: the user pressed "Отменить заказ" after paying for an order
\* and the session is idle
C26_Witness ==
    /\ last.op = "cancel_order"
    /\ fsm[last.user] = "none"
    /\ data[last.user] = NoData
    /\ \E o \in OrderIds : orders[o].user_id = last.user /\ orders[o].status = "pending"

\* the handlers of the user, payment and admin routers that match m
MatchingOutsideCommon(state, m) ==
    {h \in {UserRouter[i] : i \in DOMAIN UserRouter}
            \cup {PaymentRouter[i] : i \in DOMAIN PaymentRouter}
            \cup {AdminRouter[i] : i \in DOMAIN AdminRouter} :
        Matches(h, state, m)}

\* C27: with the routers consulted in registration order and the first
\* matching handler consuming the update, every message that matches a
\* handler of the user, payment or admin router is handled by that handler
\* and not by handle_unknown
C27_MatchingHandlerRuns ==
    [][\A u \in AllUsers, m \in UserUpdates :
          (/\ feed_update(u, m)
           /\ MatchingOutsideCommon(fsm[u], m) # {})
          => /\ last'.op # "handle_unknown"
             /\ last'.op = PropagateEvent(<<UserRouter, PaymentRouter, AdminRouter>>,
                                          fsm[u], m)]_vars

\* C28: every operator slash command sent by the operator reaches its
\* handler in the admin router
C28_OperatorCommandReachesAdminRouter ==
    [][\A m \in OperatorCommands :
          feed_update(ADMIN_ID, m)
          => last'.op = Trigger(AdminRouter, "none", m)]_vars

\* C29: in live payment mode, completing the promo step sends an invoice for
\* the created order and leaves the session in waiting_for_payment with that
\* order's id
C29_LiveModeInvoiceSent ==
    [][\A u \in Users :
          (/\ ~payment_test_mode
           /\ last'.op = "handle_promo_code_invoice"
           /\ last'.user = u)
          => /\ last'.result = "invoice_sent"
             /\ fsm'[u] = "waiting_for_payment"
             /\ data'[u].order_id = last'.order]_vars

Abandoned(o) ==
    /\ OrderExists(o)
    /\ orders[o].status = "pending"
    /\ ~orders[o].details
    /\ data[orders[o].user_id].order_id # o
    /\ \A t \in invoice_task[orders[o].user_id] : t.order_id # o

\* C31: every paid order that awaits its details stays within its owner's
\* reach, also after /start or "Отменить заказ" cleared the session in the
\* demographics or documents step: the owner can still attach documents and
\* a question and move it to Processing
C31_PaidOrderStaysWithinReach ==
    last.op \in {"cmd_start", "cancel_order"}
        => \A o \in OrderIds : ~Abandoned(o)

\* no user action brings an abandoned order back: it stays abandoned, and so
\* never gets details or the status Processing
AbandonedForGood ==
    [][\A o \in OrderIds : Abandoned(o) => Abandoned(o)']_vars

\* C32: when the user cancels an intake session after its order was created
\* at the promo step, that order does not remain in a non-terminal status
C32_UserCancelCancelsOrder ==
    [][\A u \in Users :
          (/\ cancel_order(u)
           /\ data[u].order_id # 0
           /\ OrderExists(data[u].order_id))
          => Terminal(orders'[data[u].order_id].status)]_vars

\* C33: when a user has more than one order in NeedsNewDocs, an uploaded
\* attachment is recorded against the order that the following "Документы
\* загружены" validates and moves to Pending
C33_UploadGoesToValidatedOrder ==
    (/\ last.op = "handle_docs_for_order_needs_new_docs"
     /\ last.result = "saved")
    => last.order \in LatestNeedsNewDocs(last.user)

\* C34: /cleanup_old deletes a promo-usage record only when the order it was
\* granted for (the order of that user carrying that code) was deleted by the
\* same cleanup; usage records of surviving orders are kept
C34_CleanupKeepsUsageOfSurvivors ==
    [][last'.op = "cmd_cleanup_old"
          => \A x \in used_promo_codes \ used_promo_codes' :
                \A o \in OrderIds :
                    (/\ orders[o].exists
                     /\ orders[o].user_id = x.user_id
                     /\ orders[o].promo_code = x.code)
                    => ~orders'[o].exists]_vars

\* C35: in every session the documents list holds at most MAX_DOCUMENTS
\* entries, whatever the order of the photo and file uploads, and
\* document_types is as long as documents
C35_DocumentsWithinLimit ==
    \A u \in AllUsers :
        /\ data[u].documents <= MAX_DOCUMENTS
        /\ data[u].document_types = data[u].documents

\* a file refused because a photo and a file (or two of a kind) fill the list
C35_Witness ==
    /\ last.op \in {"handle_document_photo", "handle_document_file"}
    /\ last.result = "limit"
    /\ data[last.user].documents = MAX_DOCUMENTS

\* C36: a session is in an intake step, and an order exists, only for a user
\* whose acceptance of the agreement is recorded; a user who declined or did
\* not answer has no intake session
C36_IntakeOnlyAfterAgreement ==
    /\ \A u \in AllUsers : fsm[u] \in IntakeSteps => u \in agreements
    /\ \A o \in OrderIds : orders[o].user_id \in agreements

\* a user who declined presses "Создать заказ" and is shown the agreement
\* again, while the user who accepted has an order
C36_Witness ==
    /\ last.op = "start_order_new_flow"
    /\ last.result = "agreement"
    /\ last.user \notin agreements
    /\ fsm[last.user] = "none"
    /\ \E o \in OrderIds : orders[o].user_id \in agreements

====
